---------------------------- MODULE Spec2Model ----------------------------
(***************************************************************************)
(* Model of the four permutation dealers of littlebrain_rlcard             *)
(* (BitmapDealer, FisherYatesDealer, AdaptiveThresholdDealer,              *)
(* PerfectDealer) behind the BaseDealer contract, of the ShuffleGuessGame   *)
(* that deals an episode from one of them, and of the DealerSwapDealer     *)
(* that shuffles a 52-card deck with one of them.                          *)
(*                                                                         *)
(* A dealer object is a record holding the fields its class assigns.       *)
(* Python lists are functions over 0..len-1.  The random source is the     *)
(* environment: every uniform_int(lo, hi) request is answered by an        *)
(* arbitrary value of lo..hi.  One rejection-loop iteration consumes one   *)
(* value, so a draw() of BitmapDealer / AdaptiveThresholdDealer that       *)
(* rejects its sample stays inside the call (pc = "loop") until a later    *)
(* sample is accepted.                                                     *)
(***************************************************************************)
EXTENDS Integers, Sequences, FiniteSets, Bags, TLC

VARIABLES
    dealer,     \* the dealer object (record of its fields)
    pc,         \* "idle": between calls; "loop": inside draw()'s rejection loop
    result,     \* outcome of the latest draw() call
    drawn,      \* bag of the ids returned by draw() since the latest reset (history)
    call,       \* the latest operation and, for a reset, its arguments (history)
    nsamples,   \* values taken from the random source by the latest draw()
    game        \* the ShuffleGuessGame object that owns the dealer, if any

vars == <<dealer, pc, result, drawn, call, nsamples, game>>

----------------------------------------------------------------------------
(* Bounds of the model *)

MaxN == 7          \* Bitmap, FisherYates, Perfect: reset with n in 1..MaxN
MaxNAdaptive == 8  \* AdaptiveThreshold: reset with n in 1..MaxNAdaptive
MaxNDefault == 6   \* AdaptiveThreshold without m_bits: n in 1..MaxNDefault
MaxBudget == 2     \* m_bits ranges over multiples of 8 up to 8 * MaxBudget
MaxSamples == 3    \* nsamples saturates here
MaxInvalid == 2    \* resets with n < 1: n in 1-MaxInvalid..0

(* Program constants *)

DefaultMBits == 64

Kinds == {"bitmap", "fisher_yates", "adaptive", "perfect"}

----------------------------------------------------------------------------
(* Generic helpers *)

Max(a, b) == IF a >= b THEN a ELSE b
Min(a, b) == IF a <= b THEN a ELSE b

\* math.ceil(a / b) for a >= 0, b >= 1
CeilDiv(a, b) == (a + b - 1) \div b

RECURSIVE Pow2(_)
Pow2(k) == IF k <= 0 THEN 1 ELSE 2 * Pow2(k - 1)

RECURSIVE CeilLog2From(_, _)
CeilLog2From(x, k) == IF Pow2(k) >= x THEN k ELSE CeilLog2From(x, k + 1)

\* math.ceil(math.log2(x)) for x >= 1
CeilLog2(x) == CeilLog2From(x, 0)

\* a Python list as a function over 0..len-1
EmptyList == [i \in {} |-> 0]
ListLen(l) == Cardinality(DOMAIN l)

\* params.get(key, default)
Get(params, key, default) == IF key \in DOMAIN params THEN params[key] ELSE default

\* outcome of a draw() call
NoResult == [tag |-> "none", val |-> -1]
Returned(id) == [tag |-> "id", val |-> id]
Raised(err) == [tag |-> err, val |-> -1]
Pending == [tag |-> "pending", val |-> -1]

----------------------------------------------------------------------------
(* common.py *)

\* values uniform_int(np_random, low, high) can return
uniform_int(low_inclusive, high_inclusive) == low_inclusive..high_inclusive

RECURSIVE popcount(_)
popcount(x) == IF x <= 0 THEN 0 ELSE (x % 2) + popcount(x \div 2)

\* the while loop of bit_select; -1 stands for the ValueError it raises
RECURSIVE bit_select_loop(_, _, _, _)
bit_select_loop(mask, r, count, pos) ==
    IF mask = 0 THEN -1
    ELSE IF mask % 2 = 1 /\ count = r THEN pos
    ELSE bit_select_loop(mask \div 2, r,
                         IF mask % 2 = 1 THEN count + 1 ELSE count, pos + 1)

\* mutant: the rank is counted from 1
bit_select_Rank1(mask, r) == bit_select_loop(mask, r + 1, 0, 0)

bit_select(mask, r) == bit_select_loop(mask, r, 0, 0)

\* mutant: the test is num_drawn > n
check_exhausted_Strict(self) == self.num_drawn > self.n

\* BaseDealer._check_exhausted: TRUE when it raises
check_exhausted(self) == self.num_drawn >= self.n

----------------------------------------------------------------------------
(* bitmap.py *)

BitmapNew ==
    [kind |-> "bitmap", n |-> 0, num_drawn |-> 0, available |-> EmptyList]

BitmapReset(self, n, params) ==
    [self EXCEPT !.n = n,
                 !.num_drawn = 0,
                 !.available = [i \in 0..(n - 1) |-> 1]]

\* mutant: an accepted sample is not counted in num_drawn
BitmapLoop_NoCount(self, c) ==
    IF self.available[c] = 1
    THEN [d |-> [self EXCEPT !.available[c] = 0], ret |-> TRUE, out |-> c]
    ELSE [d |-> self, ret |-> FALSE, out |-> -1]

\* one iteration of the while loop of draw() with sample c
BitmapLoop(self, c) ==
    IF self.available[c] = 1
    THEN [d |-> [self EXCEPT !.available[c] = 0, !.num_drawn = @ + 1],
          ret |-> TRUE, out |-> c]
    ELSE [d |-> self, ret |-> FALSE, out |-> -1]

BitmapRemaining(self) == self.n - self.num_drawn

----------------------------------------------------------------------------
(* fisher_yates.py *)

FisherYatesNew ==
    [kind |-> "fisher_yates", n |-> 0, num_drawn |-> 0,
     array |-> EmptyList, remaining |-> 0]

\* mutant: the live length starts one short of n
FisherYatesReset_ShortLive(self, n, params) ==
    [self EXCEPT !.n = n,
                 !.num_drawn = 0,
                 !.array = [i \in 0..(n - 1) |-> i],
                 !.remaining = n - 1]

FisherYatesReset(self, n, params) ==
    [self EXCEPT !.n = n,
                 !.num_drawn = 0,
                 !.array = [i \in 0..(n - 1) |-> i],
                 !.remaining = n]

\* mutant: the last live entry is not moved into the hole
FisherYatesSwapDelete_NoMove(self, i) ==
    [d |-> [self EXCEPT !.remaining = @ - 1, !.num_drawn = @ + 1],
     ret |-> TRUE, out |-> self.array[i]]

\* mutant: the first entry, not the last live one, is moved into the hole
FisherYatesSwapDelete_MoveFirst(self, i) ==
    [d |-> [self EXCEPT !.array[i] = self.array[0],
                        !.remaining = @ - 1,
                        !.num_drawn = @ + 1],
     ret |-> TRUE, out |-> self.array[i]]

\* body of draw() after _check_exhausted, with sample i
FisherYatesSwapDelete(self, i) ==
    [d |-> [self EXCEPT !.array[i] = self.array[self.remaining - 1],
                        !.remaining = @ - 1,
                        !.num_drawn = @ + 1],
     ret |-> TRUE, out |-> self.array[i]]

FisherYatesRemaining(self) == self.remaining

----------------------------------------------------------------------------
(* More list helpers *)

ListConcat(a, b) ==
    [i \in 0..(ListLen(a) + ListLen(b) - 1) |->
        IF i < ListLen(a) THEN a[i] ELSE b[i - ListLen(a)]]

\* list(range(lo, hi))
ListRange(lo, hi) == [k \in 0..(hi - lo - 1) |-> lo + k]

\* sum of l[0..k-1]
RECURSIVE ListSumTo(_, _)
ListSumTo(l, k) == IF k <= 0 THEN 0 ELSE l[k - 1] + ListSumTo(l, k - 1)

\* a probability as an exact fraction (the code computes the float num/den)
Frac(num, den) == [num |-> num, den |-> den]

\* value of peek_next_distribution(): None, or a dict id -> probability
PeekNone == [none |-> TRUE, dist |-> EmptyList]
PeekDict(keys, prob) == [none |-> FALSE, dist |-> [k \in keys |-> prob]]

----------------------------------------------------------------------------
(* adaptive_threshold.py *)

AdaptiveNew ==
    [kind |-> "adaptive", n |-> 0, num_drawn |-> 0,
     d |-> 0, sizes |-> EmptyList, starts |-> EmptyList, ell |-> EmptyList,
     t |-> 0, phase |-> "adaptive", final_cards |-> EmptyList,
     final_remaining |-> 0, encoding |-> "naive", m_bits |-> DefaultMBits]

\* d as reset() derives it from m_bits and n
AdaptiveD(n, m_bits) ==
    LET d0 == Max(1, m_bits \div 8)
    IN  IF d0 > n \div 2 THEN Max(1, n \div 2) ELSE d0

\* mutant: the extra cards go to the last n mod d mini-decks
AdaptiveSizes_ExtraLast(n, d) ==
    [i \in 0..(d - 1) |-> (n \div d) + (IF i >= d - (n % d) THEN 1 ELSE 0)]

\* sizes of the d mini-decks as the partition loop of reset() builds them
AdaptiveSizes(n, d) ==
    [i \in 0..(d - 1) |-> (n \div d) + (IF i < n % d THEN 1 ELSE 0)]

AdaptiveStarts(n, d) ==
    [i \in 0..(d - 1) |-> ListSumTo(AdaptiveSizes(n, d), i)]

\* mutant: reset does not put the dealer back into the adaptive phase
AdaptiveReset_KeepPhase(self, n, params) ==
    LET m_bits == Get(params, "m_bits", DefaultMBits)
        d == AdaptiveD(n, m_bits)
    IN  [self EXCEPT !.n = n,
                     !.num_drawn = 0,
                     !.m_bits = m_bits,
                     !.encoding = Get(params, "encoding", "naive"),
                     !.d = d,
                     !.sizes = AdaptiveSizes(n, d),
                     !.starts = AdaptiveStarts(n, d),
                     !.ell = [i \in 0..(d - 1) |-> 0],
                     !.t = 0,
                     !.final_cards = EmptyList,
                     !.final_remaining = 0]

\* mutant: the Elias encoding halves the budget the mini-decks are cut from
AdaptiveReset_EliasBudget(self, n, params) ==
    LET encoding == Get(params, "encoding", "naive")
        m_bits == Get(params, "m_bits", DefaultMBits)
        d == AdaptiveD(n, IF encoding = "naive" THEN m_bits ELSE m_bits \div 2)
    IN  [self EXCEPT !.n = n,
                     !.num_drawn = 0,
                     !.m_bits = m_bits,
                     !.encoding = encoding,
                     !.d = d,
                     !.sizes = AdaptiveSizes(n, d),
                     !.starts = AdaptiveStarts(n, d),
                     !.ell = [i \in 0..(d - 1) |-> 0],
                     !.t = 0,
                     !.phase = "adaptive",
                     !.final_cards = EmptyList,
                     !.final_remaining = 0]

AdaptiveReset(self, n, params) ==
    LET m_bits == Get(params, "m_bits", DefaultMBits)
        d == AdaptiveD(n, m_bits)
    IN  [self EXCEPT !.n = n,
                     !.num_drawn = 0,
                     !.m_bits = m_bits,
                     !.encoding = Get(params, "encoding", "naive"),
                     !.d = d,
                     !.sizes = AdaptiveSizes(n, d),
                     !.starts = AdaptiveStarts(n, d),
                     !.ell = [i \in 0..(d - 1) |-> 0],
                     !.t = 0,
                     !.phase = "adaptive",
                     !.final_cards = EmptyList,
                     !.final_remaining = 0]

AdaptiveRemaining(self) == self.n - self.num_drawn

\* mutant: the threshold before the first draw is 0
current_threshold_Zero(self) ==
    IF self.t = 0 THEN 0 ELSE CeilDiv(self.t, self.d) + 1

\* mutant: the threshold is floor(t/d)
current_threshold_Floor(self) ==
    IF self.t = 0 THEN 1 ELSE self.t \div self.d

\* mutant: the threshold of the draw before, from t before its increment
current_threshold_Stale(self) ==
    IF self.t <= 1 THEN 1 ELSE CeilDiv(self.t - 1, self.d) + 1

current_threshold(self) ==
    IF self.t = 0 THEN 1 ELSE CeilDiv(self.t, self.d) + 1

\* mutant: a mini-deck is dealt from its last id down
top_card_FromEnd(self, i) == self.starts[i] + self.sizes[i] - 1 - self.ell[i]

\* mutant: the card below the top of the mini-deck
top_card_Next(self, i) == self.starts[i] + self.ell[i] + 1

top_card(self, i) == self.starts[i] + self.ell[i]

get_drawable_indices(self) ==
    {i \in 0..(self.d - 1) :
        self.ell[i] < current_threshold(self) /\ self.ell[i] < self.sizes[i]}

\* the cards _transition_to_final collects from mini-decks i..d-1
RECURSIVE FinalCardsFrom(_, _)
FinalCardsFrom(self, i) ==
    IF i >= self.d THEN EmptyList
    ELSE ListConcat(ListRange(self.starts[i] + self.ell[i],
                              self.starts[i] + self.sizes[i]),
                    FinalCardsFrom(self, i + 1))

transition_to_final(self) ==
    LET cards == FinalCardsFrom(self, 0)
    IN  [self EXCEPT !.phase = "final",
                     !.final_cards = cards,
                     !.final_remaining = ListLen(cards)]

\* mutant: the last live card is not moved into the slot of the drawn one
draw_final_NoMove(self, i) ==
    [d |-> [self EXCEPT !.final_remaining = @ - 1,
                        !.num_drawn = @ + 1],
     ret |-> TRUE, out |-> self.final_cards[i]]

\* _draw_final after its emptiness test, with sample i
draw_final(self, i) ==
    [d |-> [self EXCEPT !.final_cards[i] =
                            self.final_cards[self.final_remaining - 1],
                        !.final_remaining = @ - 1,
                        !.num_drawn = @ + 1],
     ret |-> TRUE, out |-> self.final_cards[i]]

\* n_adaptive of _draw_adaptive
n_adaptive(self) == self.n - 2 * self.d

\* mutant: a mini-deck is accepted whatever the threshold
AdaptiveLoop_NoThreshold(self, i) ==
    IF self.ell[i] < self.sizes[i]
    THEN [d |-> [self EXCEPT !.ell[i] = @ + 1, !.num_drawn = @ + 1],
          ret |-> TRUE, out |-> top_card(self, i)]
    ELSE [d |-> self, ret |-> FALSE, out |-> -1]

\* one iteration of the rejection loop of _draw_adaptive with sample i
\* (self._t is already incremented)
AdaptiveLoop(self, i) ==
    IF self.ell[i] < current_threshold(self) /\ self.ell[i] < self.sizes[i]
    THEN [d |-> [self EXCEPT !.ell[i] = @ + 1, !.num_drawn = @ + 1],
          ret |-> TRUE, out |-> top_card(self, i)]
    ELSE [d |-> self, ret |-> FALSE, out |-> -1]

AdaptivePeek(self) ==
    IF AdaptiveRemaining(self) = 0 THEN PeekNone
    ELSE IF self.phase = "final"
    THEN IF self.final_remaining = 0 THEN PeekNone
         ELSE PeekDict({self.final_cards[i] : i \in 0..(self.final_remaining - 1)},
                       Frac(1, self.final_remaining))
    ELSE LET drawable == get_drawable_indices(self)
         IN  IF drawable = {} THEN PeekNone
             ELSE PeekDict({top_card(self, i) : i \in drawable},
                           Frac(1, Cardinality(drawable)))

----------------------------------------------------------------------------
(* bitmap.py / fisher_yates.py: peek_next_distribution *)

BitmapPeek(self) ==
    IF BitmapRemaining(self) = 0 THEN PeekNone
    ELSE PeekDict({i \in 0..(self.n - 1) : self.available[i] = 1},
                  Frac(1, BitmapRemaining(self)))

\* mutant: the dict ranges over the whole array, dead entries included
FisherYatesPeek_WholeArray(self) ==
    IF FisherYatesRemaining(self) = 0 THEN PeekNone
    ELSE PeekDict({self.array[i] : i \in 0..(self.n - 1)},
                  Frac(1, FisherYatesRemaining(self)))

FisherYatesPeek(self) ==
    IF FisherYatesRemaining(self) = 0 THEN PeekNone
    ELSE PeekDict({self.array[i] : i \in 0..(FisherYatesRemaining(self) - 1)},
                  Frac(1, FisherYatesRemaining(self)))

\* math.floor(math.log2(x)) for x >= 1
RECURSIVE FloorLog2(_)
FloorLog2(x) == IF x <= 1 THEN 0 ELSE 1 + FloorLog2(x \div 2)

\* _elias_gamma_bits
elias_gamma_bits(x) ==
    LET val == x + 1
    IN  IF val >= 1 THEN 2 * FloorLog2(val) + 1 ELSE 1

\* slots CPython's list_resize has allocated after len appends to []
RECURSIVE Appended(_)
Appended(len) ==
    IF len <= 0 THEN 0
    ELSE LET prev == Appended(len - 1)
         IN  IF len <= prev THEN prev ELSE ((len + (len \div 8) + 6) \div 4) * 4

\* _deep_getsizeof of a list of small ints on 64-bit CPython: the list
\* header, one pointer per allocated slot, and each int object once (ints
\* up to 256 are shared objects, which the seen set counts once)
deep_getsizeof(l, allocated) ==
    56 + 8 * allocated + 28 * Cardinality({l[i] : i \in DOMAIN l})

\* theory_bits of state_summary()
theory_bits(self) ==
    IF self.encoding = "holes_elias_doc"
    THEN LET threshold == current_threshold(self)
             live == {i \in 0..(self.d - 1) : self.ell[i] < self.sizes[i]}
             bits == [i \in live |-> elias_gamma_bits(threshold - self.ell[i])]
             total_elias == ListSumTo([k \in 0..(self.d - 1) |->
                                          IF k \in live THEN bits[k] ELSE 0], self.d)
         IN  total_elias + self.d * 2
    ELSE self.d * Max(1, CeilLog2(Max(self.n, 2)))

\* AdaptiveThresholdDealer.state_summary()
AdaptiveStateSummary(self) ==
    [algorithm |-> "AdaptiveThresholdDealer",
     n |-> self.n,
     d |-> self.d,
     m_bits |-> self.m_bits,
     encoding |-> self.encoding,
     drawn |-> self.num_drawn,
     remaining |-> AdaptiveRemaining(self),
     phase |-> self.phase,
     t |-> self.t,
     theoretical_bits |-> theory_bits(self),
     python_bytes |-> deep_getsizeof(self.ell, ListLen(self.ell))
                      + deep_getsizeof(self.sizes, Appended(ListLen(self.sizes)))
                      + deep_getsizeof(self.starts, Appended(ListLen(self.starts)))
                      + deep_getsizeof(self.final_cards,
                                       Appended(ListLen(self.final_cards)))]

----------------------------------------------------------------------------
(* perfect.py *)

PerfectNew ==
    [kind |-> "perfect", n |-> 0, num_drawn |-> 0,
     w |-> 1, num_cells |-> 0, cells |-> EmptyList,
     interval_begin |-> EmptyList, interval_size |-> EmptyList]

\* _Cell.pop
CellPop(cell) == popcount(cell.mask)

\* the cells reset() builds before sorting them
BuildCells(n, w, num_cells) ==
    [j \in 0..(num_cells - 1) |->
        [index |-> j, mask |-> Pow2(Min(w, n - j * w)) - 1, base |-> j * w]]

\* list.sort(key=pop): stable, so a cell goes behind every cell of smaller
\* population and every earlier cell of the same population
SortByPop(cells) ==
    LET idx == DOMAIN cells
        rank(j) == Cardinality({k \in idx : CellPop(cells[k]) < CellPop(cells[j])})
                   + Cardinality({k \in idx : k < j /\ CellPop(cells[k]) = CellPop(cells[j])})
    IN  [pos \in idx |-> cells[CHOOSE j \in idx : rank(j) = pos]]

\* pop_counts.get(p, 0)
PopCount(cells, p) == Cardinality({j \in DOMAIN cells : CellPop(cells[j]) = p})

\* offset at population p in the interval-assignment loop of reset()
RECURSIVE IntervalOffset(_, _)
IntervalOffset(cells, p) ==
    IF p <= 0 THEN 0 ELSE IntervalOffset(cells, p - 1) + PopCount(cells, p - 1)

PerfectReset(self, n, params) ==
    LET w == Max(1, CeilLog2(Max(n, 2)))
        num_cells == CeilDiv(n, w)
        cells == SortByPop(BuildCells(n, w, num_cells))
    IN  [self EXCEPT !.n = n,
                     !.num_drawn = 0,
                     !.w = w,
                     !.num_cells = num_cells,
                     !.cells = cells,
                     !.interval_begin = [p \in 0..w |-> IntervalOffset(cells, p)],
                     !.interval_size = [p \in 0..w |-> PopCount(cells, p)]]

PerfectRemaining(self) == self.n - self.num_drawn

\* sum of q * interval_size[q] for q in 1..p
RECURSIVE PrefixWeight(_, _)
PrefixWeight(self, p) ==
    IF p <= 0 THEN 0 ELSE PrefixWeight(self, p - 1) + p * self.interval_size[p]

\* total of draw()
PerfectTotal(self) == PrefixWeight(self, self.w)

\* the prefix-sum scan of draw() from population p on; 0 when it finds none
RECURSIVE PopScan(_, _, _, _)
PopScan(self, r, p, cumul) ==
    IF p > self.w THEN 0
    ELSE IF r < cumul + p * self.interval_size[p] THEN p
    ELSE PopScan(self, r, p + 1, cumul + p * self.interval_size[p])

\* mutant: the scan tests r <= cumul
chosen_pop_Inclusive(self, r) == PopScan(self, r - 1, 1, 0)

chosen_pop(self, r) == PopScan(self, r, 1, 0)

\* mutant: clears bit_pos and every bit below it
ClearBit_Through(mask, bit_pos) == (mask \div Pow2(bit_pos + 1)) * Pow2(bit_pos + 1)

\* mask & ~(1 << bit_pos)
ClearBit(mask, bit_pos) ==
    IF (mask \div Pow2(bit_pos)) % 2 = 1 THEN mask - Pow2(bit_pos) ELSE mask

\* mutant: the population interval the cell moves into is not grown
decrement_cell_population_NoGrow(self, cell_idx, old_pop) ==
    LET first_in_interval == self.interval_begin[old_pop]
        swapped == IF cell_idx # first_in_interval
                   THEN [self.cells EXCEPT ![cell_idx] = self.cells[first_in_interval],
                                           ![first_in_interval] = self.cells[cell_idx]]
                   ELSE self.cells
    IN  [self EXCEPT !.cells = swapped,
                     !.interval_begin[old_pop] = @ + 1,
                     !.interval_size[old_pop] = @ - 1]

\* mutant: the cell is not swapped to the front of its interval
decrement_cell_population_NoSwap(self, cell_idx, old_pop) ==
    [self EXCEPT !.interval_begin[old_pop] = @ + 1,
                 !.interval_size = [@ EXCEPT ![old_pop] = @ - 1,
                                             ![old_pop - 1] = @ + 1]]

\* mutant: the interval the cell moves into is made to begin at the cell
decrement_cell_population_MoveBegin(self, cell_idx, old_pop) ==
    LET new_pop == old_pop - 1
        first_in_interval == self.interval_begin[old_pop]
        swapped == IF cell_idx # first_in_interval
                   THEN [self.cells EXCEPT ![cell_idx] = self.cells[first_in_interval],
                                           ![first_in_interval] = self.cells[cell_idx]]
                   ELSE self.cells
    IN  [self EXCEPT !.cells = swapped,
                     !.interval_begin = [@ EXCEPT ![old_pop] = @ + 1,
                                                  ![new_pop] = first_in_interval],
                     !.interval_size = [@ EXCEPT ![old_pop] = @ - 1,
                                                 ![new_pop] = @ + 1]]

decrement_cell_population(self, cell_idx, old_pop) ==
    LET new_pop == old_pop - 1
        first_in_interval == self.interval_begin[old_pop]
        swapped == IF cell_idx # first_in_interval
                   THEN [self.cells EXCEPT ![cell_idx] = self.cells[first_in_interval],
                                           ![first_in_interval] = self.cells[cell_idx]]
                   ELSE self.cells
    IN  [self EXCEPT !.cells = swapped,
                     !.interval_begin[old_pop] = @ + 1,
                     !.interval_size = [@ EXCEPT ![old_pop] = @ - 1,
                                                 ![new_pop] = @ + 1]]

\* steps 2-4 of draw() with the three samples r, loc, bit_r;
\* bit_select's ValueError leaves the dealer as it was
PerfectSample(self, r, loc, bit_r) ==
    LET p == chosen_pop(self, r)
        cell_idx == self.interval_begin[p] + loc
        cell == self.cells[cell_idx]
        bit_pos == bit_select(cell.mask, bit_r)
        cleared == [self EXCEPT !.cells[cell_idx].mask = ClearBit(cell.mask, bit_pos)]
    IN  IF bit_pos < 0
        THEN [d |-> self, ret |-> FALSE, out |-> -1]
        ELSE [d |-> [decrement_cell_population(cleared, cell_idx, p)
                        EXCEPT !.num_drawn = @ + 1],
              ret |-> TRUE, out |-> cell.base + bit_pos]

\* ids whose bit is set in some cell mask
RECURSIVE MaskBits(_, _)
MaskBits(mask, pos) ==
    IF mask = 0 THEN {}
    ELSE (IF mask % 2 = 1 THEN {pos} ELSE {}) \cup MaskBits(mask \div 2, pos + 1)

PerfectPeek(self) ==
    IF PerfectRemaining(self) = 0 THEN PeekNone
    ELSE PeekDict(UNION {{self.cells[j].base + b : b \in MaskBits(self.cells[j].mask, 0)} :
                            j \in DOMAIN self.cells},
                  Frac(1, PerfectRemaining(self)))

----------------------------------------------------------------------------
(* The dealer contract, dispatched on the dealer's class *)

\* get_dealer(name)(): a newly constructed dealer
NewDealer(kind) ==
    CASE kind = "bitmap" -> BitmapNew
      [] kind = "fisher_yates" -> FisherYatesNew
      [] kind = "adaptive" -> AdaptiveNew
      [] kind = "perfect" -> PerfectNew

reset(self, n, params) ==
    CASE self.kind = "bitmap" -> BitmapReset(self, n, params)
      [] self.kind = "fisher_yates" -> FisherYatesReset(self, n, params)
      [] self.kind = "adaptive" -> AdaptiveReset(self, n, params)
      [] self.kind = "perfect" -> PerfectReset(self, n, params)

remaining(self) ==
    CASE self.kind = "bitmap" -> BitmapRemaining(self)
      [] self.kind = "fisher_yates" -> FisherYatesRemaining(self)
      [] self.kind = "adaptive" -> AdaptiveRemaining(self)
      [] self.kind = "perfect" -> PerfectRemaining(self)

peek_next_distribution(self) ==
    CASE self.kind = "bitmap" -> BitmapPeek(self)
      [] self.kind = "fisher_yates" -> FisherYatesPeek(self)
      [] self.kind = "adaptive" -> AdaptivePeek(self)
      [] self.kind = "perfect" -> PerfectPeek(self)

----------------------------------------------------------------------------
(* The query methods: state_summary, peek_drawable_options *)

\* sys.getsizeof of a bytearray built from len bytes (64-bit CPython)
bytearray_sizeof(len) == IF len = 0 THEN 56 ELSE 57 + len

\* slots of list(range(len)): the exact preallocation, rounded up to even
Preallocated(len) == ((len + 1) \div 2) * 2

\* BitmapDealer.state_summary()
BitmapStateSummary(self) ==
    [algorithm |-> "BitmapDealer",
     n |-> self.n,
     drawn |-> self.num_drawn,
     remaining |-> BitmapRemaining(self),
     theoretical_bits |-> self.n,
     python_bytes |-> bytearray_sizeof(ListLen(self.available))]

\* FisherYatesDealer.state_summary()
FisherYatesStateSummary(self) ==
    [algorithm |-> "FisherYatesDealer",
     n |-> self.n,
     drawn |-> self.num_drawn,
     remaining |-> self.remaining,
     theoretical_bits |-> self.n * Max(1, CeilLog2(Max(self.n, 2))),
     python_bytes |-> deep_getsizeof(self.array, Preallocated(ListLen(self.array)))]

\* PerfectDealer.state_summary(): a _Cell object counts 56 bytes, its
\* fields are not followed
PerfectStateSummary(self) ==
    [algorithm |-> "PerfectDealer",
     n |-> self.n,
     w |-> self.w,
     num_cells |-> self.num_cells,
     drawn |-> self.num_drawn,
     remaining |-> PerfectRemaining(self),
     theoretical_bits |-> self.num_cells * self.w,
     python_bytes |-> (56 + 8 * Appended(ListLen(self.cells))
                          + 56 * ListLen(self.cells))
                      + deep_getsizeof(self.interval_begin,
                                       ListLen(self.interval_begin))
                      + deep_getsizeof(self.interval_size,
                                       ListLen(self.interval_size))]

state_summary(self) ==
    CASE self.kind = "bitmap" -> BitmapStateSummary(self)
      [] self.kind = "fisher_yates" -> FisherYatesStateSummary(self)
      [] self.kind = "adaptive" -> AdaptiveStateSummary(self)
      [] self.kind = "perfect" -> PerfectStateSummary(self)

\* the keys of the dict AdaptiveThresholdDealer.peek_next_distribution()
\* returns, in insertion order
AdaptivePeekKeys(self) ==
    IF self.phase = "final"
    THEN [k \in 1..self.final_remaining |-> self.final_cards[k - 1]]
    ELSE LET drawable == SelectSeq([k \in 1..self.d |-> k - 1],
                                   LAMBDA i : i \in get_drawable_indices(self))
         IN  [k \in 1..Len(drawable) |-> top_card(self, drawable[k])]

\* AdaptiveThresholdDealer.peek_drawable_options()
peek_drawable_options(self) ==
    LET dist == AdaptivePeek(self)
        keys == AdaptivePeekKeys(self)
    IN  IF dist.none THEN <<>>
        ELSE [k \in 1..Len(keys) |-> <<keys[k], dist.dist[keys[k]]>>]

\* the query methods
QueryOps ==
    {"remaining", "peek_next_distribution", "peek_drawable_options",
     "state_summary"}

\* mutant: peeking at a dealer whose adaptive draws are used up moves it
\* into the final phase
after_query_Transition(self, op) ==
    IF /\ self.kind = "adaptive"
       /\ op \in {"peek_next_distribution", "peek_drawable_options"}
       /\ self.n >= 1
       /\ self.phase = "adaptive"
       /\ self.num_drawn >= n_adaptive(self)
       /\ self.num_drawn < self.n
    THEN transition_to_final(self)
    ELSE self

\* the dealer after query method op returned: none of them assigns to a
\* field of self or calls uniform_int
after_query(self, op) == self

----------------------------------------------------------------------------
(* Inputs *)

NoParams == [k \in {} |-> 0]

MBitsChoices == {8 * k : k \in 1..MaxBudget} \cup {8 * MaxBudget - 1}

Encodings == {"naive", "holes_elias_doc"}

\* the params a reset is called with; every dealer but AdaptiveThreshold
\* ignores them
ParamChoices(kind) ==
    IF kind = "adaptive"
    THEN {NoParams}
         \cup {[m_bits |-> m] : m \in MBitsChoices}
         \cup {[encoding |-> e] : e \in Encodings}
         \cup {[m_bits |-> m, encoding |-> "holes_elias_doc"] : m \in MBitsChoices}
    ELSE {NoParams, [m_bits |-> 8, encoding |-> "holes_elias_doc"]}

\* the n a reset is called with
NChoices(kind) == IF kind = "adaptive" THEN 1..MaxNAdaptive ELSE 1..MaxN

\* the (n, params) a reset is called with
ResetInputs(kind) ==
    {in \in NChoices(kind) \X ParamChoices(kind) :
        kind = "adaptive" /\ "m_bits" \notin DOMAIN in[2] => in[1] <= MaxNDefault}

\* the n < 1 a reset is called with
InvalidNChoices == (1 - MaxInvalid)..0

\* condition of a dealer about to be reset
Condition(self, c) ==
    IF c.op = "new" THEN "fresh"
    ELSE IF remaining(self) = 0 THEN "exhausted"
    ELSE "mid"

NewCall == [op |-> "new"]
DrawCall == [op |-> "draw"]
ResetCall(self, c, n, params) ==
    [op |-> "reset", n |-> n, params |-> params,
     from |-> Condition(self, c), prev_n |-> self.n]

Bump(k) == Min(k + 1, MaxSamples)

\* the dealer is used on its own, by no game
NoGame == [owner |-> "none"]

----------------------------------------------------------------------------
(* State machine *)

Init ==
    /\ dealer \in {NewDealer(kind) : kind \in Kinds}
    /\ pc = "idle"
    /\ result = NoResult
    /\ drawn = EmptyBag
    /\ call = NewCall
    /\ nsamples = 0
    /\ game = NoGame

\* dealer.reset(n, np_random, **params)
Reset ==
    /\ pc = "idle"
    /\ \E in \in ResetInputs(dealer.kind) :
          /\ dealer' = reset(dealer, in[1], in[2])
          /\ call' = ResetCall(dealer, call, in[1], in[2])
    /\ result' = NoResult
    /\ drawn' = EmptyBag
    /\ nsamples' = 0
    /\ pc' = "idle"
    /\ game' = game

\* a sample s = [d, ret, out] was processed after k values were consumed:
\* the draw returns s.out, or rejects the sample and stays in its loop
Outcome(s, k) ==
    /\ dealer' = s.d
    /\ pc' = IF s.ret THEN "idle" ELSE "loop"
    /\ result' = IF s.ret THEN Returned(s.out) ELSE Pending
    /\ drawn' = IF s.ret THEN drawn (+) SetToBag({s.out}) ELSE drawn
    /\ call' = DrawCall
    /\ nsamples' = k
    /\ game' = game

\* the draw raises err, leaving the dealer as self, after k values
Fail(self, err, k) ==
    /\ dealer' = self
    /\ pc' = "idle"
    /\ result' = Raised(err)
    /\ drawn' = drawn
    /\ call' = DrawCall
    /\ nsamples' = k
    /\ game' = game

\* mutant: the exhaustion test comes after the first sample was taken
DrawExhausted_AfterSample ==
    /\ pc = "idle"
    /\ check_exhausted(dealer)
    /\ Fail(dealer, "Exhausted", 1)

\* draw() of any dealer when _check_exhausted raises
DrawExhausted ==
    /\ pc = "idle"
    /\ check_exhausted(dealer)
    /\ Fail(dealer, "Exhausted", 0)

\* BitmapDealer.draw(): the call and the first iteration of its loop
BitmapDraw ==
    /\ pc = "idle"
    /\ dealer.kind = "bitmap"
    /\ ~check_exhausted(dealer)
    /\ IF uniform_int(0, dealer.n - 1) = {}
       THEN Fail(dealer, "ValueError", 0)
       ELSE \E c \in uniform_int(0, dealer.n - 1) : Outcome(BitmapLoop(dealer, c), 1)

\* mutant: the loop gives up after MaxSamples rejected samples
BitmapRetry_Capped ==
    /\ pc = "loop"
    /\ dealer.kind = "bitmap"
    /\ IF nsamples >= MaxSamples
       THEN Fail(dealer, "TooManyRejections", nsamples)
       ELSE \E c \in uniform_int(0, dealer.n - 1) :
               Outcome(BitmapLoop(dealer, c), Bump(nsamples))

\* BitmapDealer.draw(): a further iteration after a rejected sample
BitmapRetry ==
    /\ pc = "loop"
    /\ dealer.kind = "bitmap"
    /\ \E c \in uniform_int(0, dealer.n - 1) :
          Outcome(BitmapLoop(dealer, c), Bump(nsamples))

\* FisherYatesDealer.draw()
FisherYatesDraw ==
    /\ pc = "idle"
    /\ dealer.kind = "fisher_yates"
    /\ ~check_exhausted(dealer)
    /\ IF uniform_int(0, dealer.remaining - 1) = {}
       THEN Fail(dealer, "ValueError", 0)
       ELSE \E i \in uniform_int(0, dealer.remaining - 1) :
               Outcome(FisherYatesSwapDelete(dealer, i), 1)

\* _draw_final on dealer state self
DrawFinal(self) ==
    IF self.final_remaining = 0
    THEN Fail(self, "FinalExhausted", 0)
    ELSE \E i \in uniform_int(0, self.final_remaining - 1) :
            Outcome(draw_final(self, i), 1)

\* self after the increment of t that opens _draw_adaptive
enter_adaptive(self) == [self EXCEPT !.t = @ + 1]

\* AdaptiveThresholdDealer.draw() in the adaptive phase, t <= n - 2d:
\* the call and the first iteration of the rejection loop
AdaptiveDraw ==
    /\ pc = "idle"
    /\ dealer.kind = "adaptive"
    /\ ~check_exhausted(dealer)
    /\ dealer.phase = "adaptive"
    /\ LET self == enter_adaptive(dealer)
       IN  /\ ~(self.t > n_adaptive(self))
           /\ IF uniform_int(0, self.d - 1) = {}
              THEN Fail(self, "ValueError", 0)
              ELSE \E i \in uniform_int(0, self.d - 1) :
                      Outcome(AdaptiveLoop(self, i), 1)

\* a further iteration of the rejection loop of _draw_adaptive
AdaptiveRetry ==
    /\ pc = "loop"
    /\ dealer.kind = "adaptive"
    /\ \E i \in uniform_int(0, dealer.d - 1) :
          Outcome(AdaptiveLoop(dealer, i), Bump(nsamples))

\* AdaptiveThresholdDealer.draw() in the adaptive phase, t > n - 2d:
\* transition to the final phase, then _draw_final
AdaptiveTransition ==
    /\ pc = "idle"
    /\ dealer.kind = "adaptive"
    /\ ~check_exhausted(dealer)
    /\ dealer.phase = "adaptive"
    /\ LET self == enter_adaptive(dealer)
       IN  /\ self.t > n_adaptive(self)
           /\ DrawFinal(transition_to_final(self))

\* AdaptiveThresholdDealer.draw() in the final phase
AdaptiveFinal ==
    /\ pc = "idle"
    /\ dealer.kind = "adaptive"
    /\ ~check_exhausted(dealer)
    /\ dealer.phase # "adaptive"
    /\ DrawFinal(dealer)

\* PerfectDealer.draw()
PerfectDraw ==
    /\ pc = "idle"
    /\ dealer.kind = "perfect"
    /\ ~check_exhausted(dealer)
    /\ IF PerfectTotal(dealer) = 0
       THEN Fail(dealer, "Inconsistent", 0)
       ELSE \E r \in uniform_int(0, PerfectTotal(dealer) - 1) :
              LET p == chosen_pop(dealer, r)
                  isize == dealer.interval_size[p]
              IN  IF uniform_int(0, isize - 1) = {}
                  THEN Fail(dealer, "ValueError", 1)
                  ELSE \E loc \in uniform_int(0, isize - 1) :
                         IF uniform_int(0, p - 1) = {}
                         THEN Fail(dealer, "ValueError", 2)
                         ELSE \E bit_r \in uniform_int(0, p - 1) :
                                LET s == PerfectSample(dealer, r, loc, bit_r)
                                IN  IF s.ret THEN Outcome(s, 3)
                                    ELSE Fail(dealer, "ValueError", 3)

Next ==
    \/ Reset
    \/ DrawExhausted
    \/ BitmapDraw
    \/ BitmapRetry
    \/ FisherYatesDraw
    \/ AdaptiveDraw
    \/ AdaptiveRetry
    \/ AdaptiveTransition
    \/ AdaptiveFinal
    \/ PerfectDraw

Spec == Init /\ [][Next]_vars

\* dealer.reset(n, np_random, **params) with n < 1: no reset() tests n, so
\* the call runs the same assignments and returns
ResetInvalid ==
    /\ pc = "idle"
    /\ \E n \in InvalidNChoices, params \in ParamChoices(dealer.kind) :
          /\ dealer' = reset(dealer, n, params)
          /\ call' = ResetCall(dealer, call, n, params)
    /\ result' = NoResult
    /\ drawn' = EmptyBag
    /\ nsamples' = 0
    /\ pc' = "idle"
    /\ game' = game

NextAnyN ==
    \/ Reset
    \/ ResetInvalid
    \/ DrawExhausted
    \/ BitmapDraw
    \/ BitmapRetry
    \/ FisherYatesDraw
    \/ AdaptiveDraw
    \/ AdaptiveRetry
    \/ AdaptiveTransition
    \/ AdaptiveFinal
    \/ PerfectDraw

\* the dealers under resets with any n
SpecAnyN == Init /\ [][NextAnyN]_vars

----------------------------------------------------------------------------
(* The rejection loops under a fair random source *)

\* the iteration of BitmapDealer.draw()'s loop in which the source yields c
BitmapSample(c) ==
    /\ pc = "loop"
    /\ dealer.kind = "bitmap"
    /\ c \in uniform_int(0, dealer.n - 1)
    /\ Outcome(BitmapLoop(dealer, c), Bump(nsamples))

\* the source does not withhold a value of [0, n-1] forever
FairBitmapSource == \A c \in 0..(MaxN - 1) : WF_vars(BitmapSample(c))

InitBitmap == Init /\ dealer.kind = "bitmap"

NextBitmap ==
    \/ Reset
    \/ DrawExhausted
    \/ BitmapDraw
    \/ BitmapRetry

SpecBitmapFair == InitBitmap /\ [][NextBitmap]_vars /\ FairBitmapSource

\* the iteration of _draw_adaptive's loop in which the source yields i
AdaptiveSample(i) ==
    /\ pc = "loop"
    /\ dealer.kind = "adaptive"
    /\ i \in uniform_int(0, dealer.d - 1)
    /\ Outcome(AdaptiveLoop(dealer, i), Bump(nsamples))

\* the source does not withhold an index of [0, d-1] forever
FairAdaptiveSource ==
    \A i \in 0..((MaxNAdaptive \div 2) - 1) : WF_vars(AdaptiveSample(i))

InitAdaptive == Init /\ dealer.kind = "adaptive"

NextAdaptive ==
    \/ Reset
    \/ DrawExhausted
    \/ AdaptiveDraw
    \/ AdaptiveRetry
    \/ AdaptiveTransition
    \/ AdaptiveFinal

SpecAdaptiveFair == InitAdaptive /\ [][NextAdaptive]_vars /\ FairAdaptiveSource

----------------------------------------------------------------------------
(* A whole draw() call *)

Ok(s) == [d |-> s.d, ret |-> TRUE, out |-> s.out, err |-> "none"]
Raise(self, err) == [d |-> self, ret |-> FALSE, out |-> -1, err |-> err]

\* the ways a rejection loop over the samples of range can end: the accepted
\* samples (a rejected sample changes nothing and the loop asks again)
Accepted(loop, range) == {Ok(loop[v]) : v \in {x \in range : loop[x].ret}}

\* _draw_final on dealer state self
DrawFinalOutcomes(self) ==
    IF self.final_remaining = 0 THEN {Raise(self, "FinalExhausted")}
    ELSE {Ok(draw_final(self, i)) : i \in uniform_int(0, self.final_remaining - 1)}

AdaptiveDrawOutcomes(self) ==
    IF self.phase = "adaptive"
    THEN LET entered == enter_adaptive(self)
         IN  IF entered.t > n_adaptive(entered)
             THEN DrawFinalOutcomes(transition_to_final(entered))
             ELSE IF uniform_int(0, entered.d - 1) = {}
             THEN {Raise(entered, "ValueError")}
             ELSE Accepted([i \in uniform_int(0, entered.d - 1) |->
                               AdaptiveLoop(entered, i)],
                           uniform_int(0, entered.d - 1))
    ELSE DrawFinalOutcomes(self)

PerfectDrawOutcomes(self) ==
    IF PerfectTotal(self) = 0 THEN {Raise(self, "Inconsistent")}
    ELSE UNION {
        LET p == chosen_pop(self, r)
            isize == self.interval_size[p]
        IN  IF uniform_int(0, isize - 1) = {} \/ uniform_int(0, p - 1) = {}
            THEN {Raise(self, "ValueError")}
            ELSE {LET s == PerfectSample(self, r, loc, bit_r)
                  IN  IF s.ret THEN Ok(s) ELSE Raise(self, "ValueError") :
                     loc \in uniform_int(0, isize - 1),
                     bit_r \in uniform_int(0, p - 1)} :
        r \in uniform_int(0, PerfectTotal(self) - 1)}

\* dealer.draw(): every way the call can end, as [d, ret, out, err] with d
\* the dealer afterwards, out the id returned (ret) or err the error raised
draw(self) ==
    IF check_exhausted(self) THEN {Raise(self, "Exhausted")}
    ELSE CASE self.kind = "bitmap" ->
                 IF uniform_int(0, self.n - 1) = {}
                 THEN {Raise(self, "ValueError")}
                 ELSE Accepted([c \in uniform_int(0, self.n - 1) |-> BitmapLoop(self, c)],
                               uniform_int(0, self.n - 1))
           [] self.kind = "fisher_yates" ->
                 IF uniform_int(0, self.remaining - 1) = {}
                 THEN {Raise(self, "ValueError")}
                 ELSE {Ok(FisherYatesSwapDelete(self, i)) :
                          i \in uniform_int(0, self.remaining - 1)}
           [] self.kind = "adaptive" -> AdaptiveDrawOutcomes(self)
           [] self.kind = "perfect" -> PerfectDrawOutcomes(self)

----------------------------------------------------------------------------
(* Queries between the draws *)

\* the (n, params) a queried dealer is reset with
QueryResetInputs(kind) == {in \in ResetInputs(kind) : in[1] <= MaxNDefault}

\* dealer.reset(n, np_random, **params) of a dealer that is queried
QueryReset ==
    /\ pc = "idle"
    /\ \E in \in QueryResetInputs(dealer.kind) :
          /\ dealer' = reset(dealer, in[1], in[2])
          /\ call' = ResetCall(dealer, call, in[1], in[2])
    /\ result' = NoResult
    /\ drawn' = EmptyBag
    /\ UNCHANGED <<pc, nsamples, game>>

\* dealer.draw(), the whole call
Draw ==
    /\ pc = "idle"
    /\ \E o \in draw(dealer) :
          /\ dealer' = o.d
          /\ result' = IF o.ret THEN Returned(o.out) ELSE Raised(o.err)
          /\ drawn' = IF o.ret THEN drawn (+) SetToBag({o.out}) ELSE drawn
    /\ call' = DrawCall
    /\ UNCHANGED <<pc, nsamples, game>>

\* query method op returned value
Query(op, value) ==
    /\ pc = "idle"
    /\ dealer' = after_query(dealer, op)
    /\ result' = [tag |-> op, val |-> value]
    /\ UNCHANGED <<pc, drawn, call, nsamples, game>>

\* dealer.remaining()
QueryRemaining == Query("remaining", remaining(dealer))

\* dealer.peek_next_distribution()
QueryPeek == Query("peek_next_distribution", peek_next_distribution(dealer))

\* dealer.peek_drawable_options() of AdaptiveThresholdDealer
QueryPeekOptions ==
    /\ dealer.kind = "adaptive"
    /\ Query("peek_drawable_options", peek_drawable_options(dealer))

\* dealer.state_summary()
QuerySummary == Query("state_summary", state_summary(dealer))

NextQuery ==
    \/ QueryReset
    \/ Draw
    \/ QueryRemaining
    \/ QueryPeek
    \/ QueryPeekOptions
    \/ QuerySummary

SpecQuery == Init /\ [][NextQuery]_vars

----------------------------------------------------------------------------
(* dealers/__init__.py, cards.py *)

NUM_TYPES == 52

\* mutant: an unknown name falls back to the default dealer
get_dealer_Default(name) ==
    [ok |-> TRUE, dealer |-> NewDealer(IF name \in Kinds THEN name ELSE "adaptive")]

\* DEALER_REGISTRY.get(name), then cls() or the ValueError "Unknown dealer"
get_dealer(name) ==
    IF name \in Kinds
    THEN [ok |-> TRUE, dealer |-> NewDealer(name)]
    ELSE [ok |-> FALSE, err |-> "UnknownDealer"]

----------------------------------------------------------------------------
(* envs/shuffle_guess/game.py *)

DefaultNCards == 104
DefaultNumDecks == 2
DefaultGameMBits == 64

\* an optional id: None, or the id
None == <<>>
Some(id) == <<id>>

ZeroCounts == [k \in 0..(NUM_TYPES - 1) |-> 0]

\* ShuffleGuessGame.__init__, but for self._dealer
NewGame ==
    [owner |-> "ShuffleGuessGame",
     n |-> DefaultNCards, num_decks |-> DefaultNumDecks, action_mode |-> "type",
     dealer_name |-> "adaptive", m_bits |-> DefaultGameMBits,
     dealer_params |-> NoParams,
     t |-> 0, counts |-> ZeroCounts, score |-> 0, drawn_ids |-> <<>>,
     last_drawn_id |-> None, done |-> FALSE]

\* configure(game_config) up to its call of get_dealer
configure(self, game_config) ==
    [self EXCEPT !.n = Get(game_config, "n_cards", DefaultNCards),
                 !.num_decks = Get(game_config, "num_decks", DefaultNumDecks),
                 !.action_mode = Get(game_config, "action_mode", "type"),
                 !.dealer_name = Get(game_config, "dealer", "adaptive"),
                 !.m_bits = Get(game_config, "m_bits", DefaultGameMBits),
                 !.dealer_params = Get(game_config, "dealer_params", NoParams)]

\* {"m_bits": self._m_bits, **self._dealer_params}: a later key wins
reset_params(self) == self.dealer_params @@ [m_bits |-> self.m_bits]

\* mutant: a new episode keeps the histogram of the episode before
init_game_KeepCounts(self) ==
    [self EXCEPT !.t = 0,
                 !.score = 0,
                 !.drawn_ids = <<>>,
                 !.last_drawn_id = None,
                 !.done = FALSE]

\* init_game() after its call of dealer.reset
init_game(self) ==
    [self EXCEPT !.t = 0,
                 !.counts = ZeroCounts,
                 !.score = 0,
                 !.drawn_ids = <<>>,
                 !.last_drawn_id = None,
                 !.done = FALSE]

\* mutant: the guess is compared with the card id, not with its type
step_GuessId(self, action, drawn_id) ==
    LET drawn_type == drawn_id % NUM_TYPES
    IN  [self EXCEPT !.score = IF action = drawn_id THEN @ + 1 ELSE @,
                     !.counts[drawn_type] = @ + 1,
                     !.drawn_ids = Append(@, drawn_id),
                     !.last_drawn_id = Some(drawn_id),
                     !.t = @ + 1,
                     !.done = IF self.t + 1 >= self.n THEN TRUE ELSE @]

\* mutant: the episode ends only when the turn exceeds n
step_LateDone(self, action, drawn_id) ==
    LET drawn_type == drawn_id % NUM_TYPES
    IN  [self EXCEPT !.score = IF action = drawn_type THEN @ + 1 ELSE @,
                     !.counts[drawn_type] = @ + 1,
                     !.drawn_ids = Append(@, drawn_id),
                     !.last_drawn_id = Some(drawn_id),
                     !.t = @ + 1,
                     !.done = IF self.t + 1 > self.n THEN TRUE ELSE @]

\* step(action) after the dealer returned drawn_id
step(self, action, drawn_id) ==
    LET drawn_type == drawn_id % NUM_TYPES
    IN  [self EXCEPT !.score = IF action = drawn_type THEN @ + 1 ELSE @,
                     !.counts[drawn_type] = @ + 1,
                     !.drawn_ids = Append(@, drawn_id),
                     !.last_drawn_id = Some(drawn_id),
                     !.t = @ + 1,
                     !.done = IF self.t + 1 >= self.n THEN TRUE ELSE @]

get_num_actions(self) == IF self.action_mode = "type" THEN NUM_TYPES ELSE self.n

get_legal_actions(self) ==
    IF self.action_mode = "type" THEN 0..(NUM_TYPES - 1) ELSE 0..(self.n - 1)

is_over(self) == self.done

get_payoffs(self) == <<self.score>>

get_state(self) ==
    [counts |-> self.counts,
     turn |-> self.t,
     n |-> self.n,
     last_drawn_id |-> self.last_drawn_id,
     drawn_ids |-> self.drawn_ids,
     dealer_name |-> self.dealer_name,
     dealer_params |-> [m_bits |-> self.m_bits] @@ self.dealer_params,
     score |-> self.score,
     legal_actions |-> get_legal_actions(self)]

----------------------------------------------------------------------------
(* Inputs of the game *)

MaxNGame == 3      \* configured decks: n_cards in 1..MaxNGame, or the default

UnknownNames == {"fisher-yates", "Bitmap"}

\* game_config: every key is optional.  The default deck of DefaultNCards
\* cards is dealt by the default dealer with m_bits = 8 (one mini-deck).
GameConfigs ==
    {cfg \in {a @@ b @@ c @@ d @@ e :
                 a \in {NoParams} \cup {[n_cards |-> k] : k \in 1..MaxNGame},
                 b \in {NoParams} \cup {[dealer |-> name] : name \in Kinds \cup UnknownNames},
                 c \in {NoParams, [action_mode |-> "type"], [action_mode |-> "id"]},
                 d \in {NoParams, [m_bits |-> 8]},
                 e \in {NoParams, [dealer_params |-> [m_bits |-> 16]]}} :
        "n_cards" \notin DOMAIN cfg => DOMAIN cfg \ {"action_mode"} = {"m_bits"}}

\* the guesses an agent makes
ActionChoices(self) == {0, 1, 8, 60} \cap get_legal_actions(self)

ConfigureCall(cfg) == [op |-> "configure", config |-> cfg]
InitGameCall(params) == [op |-> "init_game", params |-> params]
StepCall(action) == [op |-> "step", action |-> action]

----------------------------------------------------------------------------
(* State machine of the game *)

GameInit ==
    /\ game = NewGame
    /\ dealer = get_dealer(NewGame.dealer_name).dealer
    /\ pc = "idle"
    /\ result = NoResult
    /\ drawn = EmptyBag
    /\ call = NewCall
    /\ nsamples = 0

\* game.configure(game_config), called before the first init_game
GameConfigure ==
    /\ call.op \in {"new", "configure"}
    /\ \E cfg \in GameConfigs :
          LET self == configure(game, cfg)
              made == get_dealer(self.dealer_name)
          IN  /\ game' = self
              /\ dealer' = IF made.ok THEN made.dealer ELSE dealer
              /\ result' = IF made.ok THEN NoResult ELSE Raised(made.err)
              /\ call' = ConfigureCall(cfg)
    /\ UNCHANGED <<pc, drawn, nsamples>>

\* game.init_game()
GameInitGame ==
    /\ call.op # "new"
    /\ dealer' = reset(dealer, game.n, reset_params(game))
    /\ game' = init_game(game)
    /\ result' = NoResult
    /\ drawn' = EmptyBag
    /\ call' = InitGameCall(reset_params(game))
    /\ UNCHANGED <<pc, nsamples>>

\* game.step(action) while the episode is running
GameStep ==
    /\ call.op \in {"init_game", "step"}
    /\ ~is_over(game)
    /\ \E action \in ActionChoices(game), o \in draw(dealer) :
          /\ dealer' = o.d
          /\ game' = IF o.ret THEN step(game, action, o.out) ELSE game
          /\ result' = IF o.ret THEN Returned(o.out) ELSE Raised(o.err)
          /\ drawn' = IF o.ret THEN drawn (+) SetToBag({o.out}) ELSE drawn
          /\ call' = StepCall(action)
    /\ UNCHANGED <<pc, nsamples>>

\* mutant: step does not test _done and asks the dealer for a card
GameStepOver_NoTest ==
    /\ call.op \in {"init_game", "step"}
    /\ is_over(game)
    /\ \E action \in ActionChoices(game), o \in draw(dealer) :
          /\ dealer' = o.d
          /\ game' = IF o.ret THEN step(game, action, o.out) ELSE game
          /\ result' = IF o.ret THEN Returned(o.out) ELSE Raised(o.err)
          /\ drawn' = IF o.ret THEN drawn (+) SetToBag({o.out}) ELSE drawn
          /\ call' = StepCall(action)
    /\ UNCHANGED <<pc, nsamples>>

\* game.step(action) once the episode is over
GameStepOver ==
    /\ call.op \in {"init_game", "step"}
    /\ is_over(game)
    /\ \E action \in ActionChoices(game) :
          call' = StepCall(action)
    /\ result' = Raised("EpisodeOver")
    /\ UNCHANGED <<dealer, game, pc, drawn, nsamples>>

NextGame ==
    \/ GameConfigure
    \/ GameInitGame
    \/ GameStep
    \/ GameStepOver

SpecGame == GameInit /\ [][NextGame]_vars

----------------------------------------------------------------------------
(* envs/holdem_dealerlab/dealer.py *)

StandardDeckSize == 52

SUITS == <<"S", "H", "D", "C">>
RANKS == <<"A", "2", "3", "4", "5", "6", "7", "8", "9", "T", "J", "Q", "K">>

\* init_standard_deck() of RLCard: one card per suit and rank, suit by suit
init_standard_deck ==
    [k \in 0..(StandardDeckSize - 1) |->
        <<SUITS[(k \div Len(RANKS)) + 1], RANKS[(k % Len(RANKS)) + 1]>>]

\* DealerSwapDealer.__init__ before its call of shuffle()
NewSwap(dealer_name, dealer_params) ==
    [owner |-> "DealerSwapDealer",
     dealer_name |-> dealer_name, dealer_params |-> dealer_params,
     deck |-> <<>>, pot |-> 0]

\* mutant: the permutation is stored as drawn, not reversed
shuffle_deck_NotReversed(base_deck, perm) ==
    [k \in 1..Len(perm) |-> base_deck[perm[k]]]

\* [base_deck[i] for i in perm[::-1]]
shuffle_deck(base_deck, perm) ==
    [k \in 1..Len(perm) |-> base_deck[perm[Len(perm) - k + 1]]]

\* self.deck.pop() num times, stopping at the IndexError of an empty deck:
\* the cards popped, in order
RECURSIVE Popped(_, _)
Popped(deck, num) ==
    IF num = 0 \/ Len(deck) = 0 THEN <<>>
    ELSE <<deck[Len(deck)]>> \o Popped(SubSeq(deck, 1, Len(deck) - 1), num - 1)

----------------------------------------------------------------------------
(* Inputs and state machine of the card dealer *)

\* the dealer a DealerSwapDealer is built with: the AdaptiveThreshold dealer
\* with one mini-deck, which deals 50 of the 52 ids in order
SwapInputs ==
    {<<"adaptive", [m_bits |-> 8]>>,
     <<"adaptive", [m_bits |-> 15, encoding |-> "holes_elias_doc"]>>}

\* cards a player is dealt at once
DealSizes == {2, 3}

ShuffleCall(perm) == [op |-> "shuffle", perm |-> perm, k |-> 0]
DealCall(op, c, k) == [op |-> op, perm |-> c.perm, k |-> k]
Cards(op, cards) == [tag |-> op, val |-> cards]

\* shuffle() up to the list comprehension that draws the ids
ShuffleBegin(self, algo) ==
    /\ dealer' = reset(algo, ListLen(init_standard_deck), self.dealer_params)
    /\ call' = ShuffleCall(<<>>)
    /\ result' = NoResult
    /\ drawn' = EmptyBag
    /\ pc' = "shuffle"

\* DealerSwapDealer(np_random, dealer_name, dealer_params), inside the
\* shuffle() its constructor calls
SwapInit ==
    /\ nsamples = 0
    /\ \E in \in SwapInputs :
          /\ game = NewSwap(in[1], in[2])
          /\ dealer = reset(get_dealer(in[1]).dealer, ListLen(init_standard_deck), in[2])
    /\ call = ShuffleCall(<<>>)
    /\ result = NoResult
    /\ drawn = EmptyBag
    /\ pc = "shuffle"

\* dealer.shuffle(), called on the built object
SwapShuffle ==
    /\ pc = "idle"
    /\ ShuffleBegin(game, dealer)
    /\ UNCHANGED <<game, nsamples>>

\* one self._algo.draw() of the list comprehension of shuffle(); the draw
\* that completes perm is followed by the assignment of the deck
SwapShuffleDraw ==
    /\ pc = "shuffle"
    /\ \E o \in draw(dealer) :
          LET perm == IF o.ret THEN Append(call.perm, o.out) ELSE call.perm
              last == o.ret /\ Len(perm) = ListLen(init_standard_deck)
          IN  /\ dealer' = o.d
              /\ call' = ShuffleCall(perm)
              /\ drawn' = IF o.ret THEN drawn (+) SetToBag({o.out}) ELSE drawn
              /\ result' = IF o.ret THEN NoResult ELSE Raised(o.err)
              /\ pc' = IF o.ret /\ ~last THEN "shuffle" ELSE "idle"
              /\ game' = IF last
                         THEN [game EXCEPT !.deck = shuffle_deck(init_standard_deck, perm)]
                         ELSE game
    /\ UNCHANGED nsamples

\* dealer.deal_card()
SwapDealCard ==
    /\ pc = "idle"
    /\ LET got == Popped(game.deck, 1)
       IN  /\ game' = [game EXCEPT !.deck = SubSeq(@, 1, Len(@) - Len(got))]
           /\ result' = IF Len(got) = 1 THEN Cards("card", got[1])
                        ELSE Raised("IndexError")
           /\ call' = DealCall("deal_card", call, call.k + Len(got))
    /\ UNCHANGED <<dealer, pc, drawn, nsamples>>

\* dealer.deal_cards(player, num): result.val is what player.hand received
SwapDealCards ==
    /\ pc = "idle"
    /\ \E num \in DealSizes :
          LET got == Popped(game.deck, num)
          IN  /\ game' = [game EXCEPT !.deck = SubSeq(@, 1, Len(@) - Len(got))]
              /\ result' = Cards(IF Len(got) = num THEN "cards" ELSE "IndexError", got)
              /\ call' = DealCall("deal_cards", call, call.k + Len(got))
    /\ UNCHANGED <<dealer, pc, drawn, nsamples>>

NextSwap ==
    \/ SwapShuffle
    \/ SwapShuffleDraw
    \/ SwapDealCard
    \/ SwapDealCards

SpecSwap == SwapInit /\ [][NextSwap]_vars

----------------------------------------------------------------------------
(* Properties *)

NumReturned == BagCardinality(drawn)
DrawnIds == BagToSet(drawn)
AllIds == 0..(dealer.n - 1)

\* C1: the draws that follow a reset return each id of 0..n-1 exactly once:
\* no id is returned twice, none lies outside 0..n-1, no draw fails before
\* n ids were returned, and once n ids were returned they are all of 0..n-1.
C1_Permutation ==
    /\ \A id \in DrawnIds : id \in AllIds /\ CopiesIn(id, drawn) = 1
    /\ result.tag \in {"none", "pending", "id", "Exhausted"}
    /\ result.tag = "Exhausted" => NumReturned = dealer.n
    /\ result.tag = "id" => result.val \in DrawnIds
    /\ NumReturned = dealer.n => DrawnIds = AllIds

\* a full deal of an AdaptiveThreshold dealer that went through both phases
C1_Witness ==
    /\ dealer.kind = "adaptive"
    /\ dealer.d = 2
    /\ dealer.n >= 5
    /\ dealer.phase = "final"
    /\ NumReturned = dealer.n
    /\ result.tag = "id"

\* C2: remaining() = n - num_drawn in every state, num_drawn counts the ids
\* returned since the reset and stays within 0..n, and FisherYates' own
\* live-prefix counter equals n - num_drawn.
C2_Remaining ==
    /\ remaining(dealer) = dealer.n - dealer.num_drawn
    /\ dealer.num_drawn = NumReturned
    /\ 0 <= dealer.num_drawn /\ dealer.num_drawn <= dealer.n
    /\ dealer.kind = "fisher_yates" => dealer.remaining = dealer.n - dealer.num_drawn

C2_Witness ==
    /\ dealer.kind = "fisher_yates"
    /\ dealer.num_drawn >= 2
    /\ remaining(dealer) >= 2
    /\ remaining(dealer) = dealer.n - NumReturned

\* C3: once n ids were returned, every further draw() raises Exhausted and
\* returns no id.
C3_Exhausted ==
    [][(NumReturned = dealer.n /\ call'.op = "draw")
          => (result'.tag = "Exhausted" /\ drawn' = drawn /\ pc' = "idle")]_vars

C3_Witness ==
    /\ result.tag = "Exhausted"
    /\ dealer.n >= 2
    /\ NumReturned = dealer.n
    /\ dealer.num_drawn = dealer.n

\* C5: a reset in any state (fresh, mid-deal, exhausted, other n or params)
\* leaves the dealer in exactly the state a newly constructed dealer reaches
\* by the same reset, with nothing drawn and n cards remaining.
C5_ResetReinitializes ==
    call.op = "reset" =>
        /\ dealer = reset(NewDealer(dealer.kind), call.n, call.params)
        /\ remaining(dealer) = call.n
        /\ drawn = EmptyBag
        /\ pc = "idle"

\* an exhausted AdaptiveThreshold dealer was reset with another n
C5_Witness ==
    /\ call.op = "reset"
    /\ call.from = "exhausted"
    /\ call.prev_n > call.n
    /\ dealer.kind = "adaptive"
    /\ dealer.n = call.n
    /\ dealer.phase = "adaptive"

----------------------------------------------------------------------------
(* Distributions *)

FracAdd(a, b) == [num |-> a.num * b.den + b.num * a.den, den |-> a.den * b.den]

\* sum of the probabilities of dist over keys
RECURSIVE DistSum(_, _)
DistSum(dist, keys) ==
    IF keys = {} THEN Frac(0, 1)
    ELSE LET k == CHOOSE x \in keys : TRUE
         IN  FracAdd(dist[k], DistSum(dist, keys \ {k}))

\* the probabilities of a peek result add up to 1
TotalIsOne(pk) ==
    LET total == DistSum(pk.dist, DOMAIN pk.dist) IN total.num = total.den

UniformKinds == {"bitmap", "fisher_yates", "perfect"}

\* C6: between calls, while cards remain, peek_next_distribution() of a
\* uniform dealer has exactly the undrawn ids as keys, gives each probability
\* 1/remaining(), sums to 1, and the id the next draw() returns is a key.
C6_UniformPeek ==
    /\ [](dealer.kind \in UniformKinds /\ pc = "idle" /\ remaining(dealer) > 0
            => LET pk == peek_next_distribution(dealer)
               IN  /\ ~pk.none
                   /\ DOMAIN pk.dist = AllIds \ DrawnIds
                   /\ \A k \in DOMAIN pk.dist :
                         pk.dist[k] = Frac(1, remaining(dealer))
                   /\ TotalIsOne(pk))
    /\ [][(dealer.kind \in UniformKinds /\ result'.tag = "id")
            => result'.val \in DOMAIN peek_next_distribution(dealer).dist]_vars

C6_Witness ==
    /\ dealer.kind = "perfect"
    /\ pc = "idle"
    /\ dealer.num_drawn >= 2
    /\ Cardinality(DOMAIN peek_next_distribution(dealer).dist) >= 2
    /\ result.tag = "id"

\* the dealer as it was when the draw() in progress was called: inside the
\* rejection loop of _draw_adaptive only t has changed
CallState ==
    IF pc = "loop" /\ dealer.kind = "adaptive"
    THEN [dealer EXCEPT !.t = @ - 1]
    ELSE dealer

\* the draw() about to return is one of the first n - 2d draws
InAdaptivePhase ==
    /\ dealer.kind = "adaptive"
    /\ CallState.phase = "adaptive"
    /\ CallState.num_drawn < n_adaptive(CallState)

\* C7: before each of the first n - 2d draws of AdaptiveThreshold, the peek
\* has total probability 1 and contains the card the draw then returns.
C7_AdaptivePeek ==
    [][(InAdaptivePhase /\ result'.tag = "id")
          => LET pk == peek_next_distribution(CallState)
             IN  /\ ~pk.none
                 /\ TotalIsOne(pk)
                 /\ result'.val \in DOMAIN pk.dist]_vars

\* C8: between calls, peek_next_distribution() is None exactly when the
\* dealer is exhausted, and is a non-empty map while cards remain.
C8_PeekNoneIffExhausted ==
    pc = "idle" =>
        LET pk == peek_next_distribution(dealer)
        IN  /\ pk.none <=> remaining(dealer) = 0
            /\ remaining(dealer) > 0 => DOMAIN pk.dist # {}

C8_Witness ==
    /\ dealer.kind = "adaptive"
    /\ dealer.phase = "final"
    /\ dealer.n >= 4
    /\ remaining(dealer) = 0
    /\ peek_next_distribution(dealer).none

\* first ids of the mini-decks
StartIds == {dealer.starts[i] : i \in 0..(dealer.d - 1)}

\* C9 as stated: for every n and m_bits the first id drawn after a reset is
\* the first id of one of the d mini-decks.
C9_FirstIsStart ==
    (dealer.kind = "adaptive" /\ NumReturned = 1) => DrawnIds \subseteq StartIds

\* C9 amended: when the adaptive phase is not empty (n > 2d), or n = 1, the
\* first id drawn after a reset is the first id of one of the d mini-decks.
C9_FirstIsStartAdaptive ==
    (/\ dealer.kind = "adaptive"
     /\ NumReturned = 1
     /\ (dealer.n > 2 * dealer.d \/ dealer.n = 1))
        => DrawnIds \subseteq StartIds

C9_Witness ==
    /\ dealer.kind = "adaptive"
    /\ NumReturned = 1
    /\ dealer.n > 2 * dealer.d
    /\ dealer.d >= 2
    /\ result.tag = "id"
    /\ result.val = dealer.starts[1]

----------------------------------------------------------------------------
(* Distribution of PerfectDealer.draw over its three samples *)

\* product of q * interval_size[q] over the non-empty populations q <= p
RECURSIVE WeightProduct(_, _)
WeightProduct(self, p) ==
    IF p <= 0 THEN 1
    ELSE Max(1, p * self.interval_size[p]) * WeightProduct(self, p - 1)

\* the triples (r, loc, bit_r) the three uniform_int calls of draw() can yield
PerfectSamples(self) ==
    {smp \in uniform_int(0, PerfectTotal(self) - 1)
             \X (0..(self.num_cells - 1)) \X (0..(self.w - 1)) :
        /\ smp[2] \in uniform_int(0, self.interval_size[chosen_pop(self, smp[1])] - 1)
        /\ smp[3] \in uniform_int(0, chosen_pop(self, smp[1]) - 1)}

RECURSIVE SumOver(_, _)
SumOver(f, S) ==
    IF S = {} THEN 0
    ELSE LET x == CHOOSE y \in S : TRUE IN f[x] + SumOver(f, S \ {x})

\* C10: in every PerfectDealer state with cards left, weighting each triple
\* of samples (r, loc, bit_r) by 1/(total * interval_size[p*] * p*), every
\* undrawn id is returned with probability exactly 1/remaining and no drawn
\* id is returned; p* is the smallest p >= 1 whose prefix sum of
\* q * interval_size[q] exceeds r.
C10_PerfectUniform ==
    (dealer.kind = "perfect" /\ pc = "idle" /\ remaining(dealer) > 0) =>
        LET total == PerfectTotal(dealer)
            den == total * WeightProduct(dealer, dealer.w)
            samples == PerfectSamples(dealer)
            pop == [smp \in samples |-> chosen_pop(dealer, smp[1])]
            \* probability of the triple, in units of 1/den
            weight == [smp \in samples |->
                          den \div (total * dealer.interval_size[pop[smp]] * pop[smp])]
            outcome == [smp \in samples |->
                          PerfectSample(dealer, smp[1], smp[2], smp[3])]
            idWeight(id) == SumOver(weight, {smp \in samples : outcome[smp].out = id})
        IN  /\ total > 0
            /\ \A smp \in samples : outcome[smp].ret
            /\ \A id \in AllIds \ DrawnIds : idWeight(id) * remaining(dealer) = den
            /\ \A id \in DrawnIds : idWeight(id) = 0
            /\ SumOver(weight, samples) = den
            /\ \A r \in uniform_int(0, total - 1) :
                  /\ chosen_pop(dealer, r) \in 1..dealer.w
                  /\ PrefixWeight(dealer, chosen_pop(dealer, r)) > r
                  /\ \A q \in 1..(chosen_pop(dealer, r) - 1) : PrefixWeight(dealer, q) <= r

\* a PerfectDealer mid-deal whose cells have three different populations
C10_Witness ==
    /\ dealer.kind = "perfect"
    /\ pc = "idle"
    /\ dealer.num_drawn >= 1
    /\ Cardinality({p \in 1..dealer.w : dealer.interval_size[p] > 0}) >= 3
    /\ Cardinality(PerfectSamples(dealer)) >= 4

----------------------------------------------------------------------------
(* PerfectDealer bookkeeping; failed draws *)

\* sum of popcount(cell.mask) over cells[0..k-1]
RECURSIVE MaskPopSum(_, _)
MaskPopSum(cells, k) ==
    IF k <= 0 THEN 0 ELSE CellPop(cells[k - 1]) + MaskPopSum(cells, k - 1)

\* C11: for PerfectDealer, after reset and after every draw, the sum over p
\* of p * interval_size[p] equals remaining(), and the popcounts of all cell
\* masks add up to remaining() (n >= 1 exactly when the dealer was reset).
C11_PerfectSums ==
    (dealer.kind = "perfect" /\ dealer.n >= 1) =>
        /\ PrefixWeight(dealer, dealer.w) = remaining(dealer)
        /\ MaskPopSum(dealer.cells, ListLen(dealer.cells)) = remaining(dealer)
        /\ remaining(dealer) = dealer.n - NumReturned

\* a PerfectDealer after draws that emptied one cell and thinned another
C11_Witness ==
    /\ dealer.kind = "perfect"
    /\ dealer.num_drawn >= 3
    /\ remaining(dealer) >= 2
    /\ dealer.interval_size[0] >= 1
    /\ \E j \in DOMAIN dealer.cells :
          CellPop(dealer.cells[j]) \in 1..(dealer.w - 1)

\* C12: a draw() that fails with Exhausted changes nothing: the dealer record
\* (num_drawn and all algorithm-private fields) and remaining() are as before
\* the call, no id is returned and no value is taken from the random source.
C12_ExhaustedMutatesNothing ==
    [][(call'.op = "draw" /\ result'.tag = "Exhausted")
          => (/\ dealer' = dealer
              /\ remaining(dealer') = remaining(dealer)
              /\ drawn' = drawn
              /\ nsamples' = 0
              /\ pc' = "idle")]_vars

\* an exhausted AdaptiveThreshold dealer in its final phase refused a draw
C12_Witness ==
    /\ result.tag = "Exhausted"
    /\ dealer.kind = "adaptive"
    /\ dealer.phase = "final"
    /\ dealer.d >= 2
    /\ dealer.t >= 1
    /\ nsamples = 0
    /\ remaining(dealer) = 0

----------------------------------------------------------------------------
(* Resets with n < 1 *)

\* C13: a reset with n < 1 fails with InvalidConfig for every dealer, and a
\* draw() on the dealer it leaves fails too.
C13_InvalidConfig ==
    /\ (call.op = "reset" /\ call.n < 1) => result.tag = "InvalidConfig"
    /\ (call.op = "draw" /\ dealer.n < 1) => result.tag \notin {"id", "pending", "none"}

----------------------------------------------------------------------------
(* The dealer registry and the ShuffleGuessGame episode *)

\* C14: get_dealer(name) makes a dealer of the matching kind for each of the
\* keys bitmap, fisher_yates, adaptive, perfect; for every other name it
\* fails with UnknownDealer and no dealer is created (the game keeps the
\* dealer it had).
C14_GetDealer ==
    /\ [](call.op = "configure" =>
            IF game.dealer_name \in {"bitmap", "fisher_yates", "adaptive", "perfect"}
            THEN /\ result.tag = "none"
                 /\ dealer.kind = game.dealer_name
                 /\ dealer.n = 0 /\ dealer.num_drawn = 0
            ELSE result.tag = "UnknownDealer")
    /\ [][(call'.op = "configure"
           /\ game'.dealer_name \notin {"bitmap", "fisher_yates", "adaptive", "perfect"})
            => dealer' = dealer]_vars

\* an unknown name was refused and the game kept its PerfectDealer
C14_Witness ==
    /\ call.op = "configure"
    /\ game.dealer_name = "Bitmap"
    /\ result.tag = "UnknownDealer"
    /\ dealer.kind = "perfect"

\* the latest call was a step that drew a card
Stepped == call.op = "step" /\ result.tag = "id"

\* C15: a step in type mode on a running episode draws exactly one id, adds
\* 1 to score iff action = id mod 52, adds 1 to counts[id mod 52] and to no
\* other entry, appends the id to drawn_ids, makes it last_drawn_id and adds
\* exactly 1 to turn.
C15_StepTypeMode ==
    [][(call'.op = "step" /\ ~is_over(game) /\ game.action_mode = "type")
          => LET id == result'.val
                 before == get_state(game)
                 after == get_state(game')
             IN  /\ result'.tag = "id"
                 /\ drawn' = drawn (+) SetToBag({id})
                 /\ dealer'.num_drawn = dealer.num_drawn + 1
                 /\ after.score = before.score
                                    + (IF call'.action = id % 52 THEN 1 ELSE 0)
                 /\ after.counts[id % 52] = before.counts[id % 52] + 1
                 /\ \A k \in DOMAIN before.counts \ {id % 52} :
                       after.counts[k] = before.counts[k]
                 /\ DOMAIN after.counts = DOMAIN before.counts
                 /\ after.drawn_ids = before.drawn_ids \o <<id>>
                 /\ after.last_drawn_id = <<id>>
                 /\ after.turn = before.turn + 1]_vars

\* in type mode, with two decks, the guess 8 scored on card 60
C15_Witness ==
    /\ Stepped
    /\ game.action_mode = "type"
    /\ game.n = 104
    /\ result.val = 60
    /\ call.action = 8
    /\ game.score >= 1
    /\ game.counts[8] = 2

\* C16: a step in id mode adds 1 to score iff action equals the full id of
\* the drawn card, and leaves score unchanged otherwise.
C16_StepIdMode ==
    [][(call'.op = "step" /\ ~is_over(game) /\ game.action_mode = "id"
        /\ result'.tag = "id")
          => game'.score = game.score
                             + (IF call'.action = result'.val THEN 1 ELSE 0)]_vars

\* C17: a step on a terminal episode fails with EpisodeOver and changes
\* nothing: turn, score, counts, drawn_ids, last_drawn_id and the dealer are
\* as before and no card is drawn.
C17_StepAfterTerminal ==
    [][(call'.op = "step" /\ is_over(game))
          => /\ result'.tag = "EpisodeOver"
             /\ get_state(game') = get_state(game)
             /\ game' = game
             /\ dealer' = dealer
             /\ drawn' = drawn]_vars

\* a finished episode of three cards refused a further step
C17_Witness ==
    /\ call.op = "step"
    /\ result.tag = "EpisodeOver"
    /\ game.t = 3 /\ game.n = 3
    /\ dealer.kind = "bitmap"
    /\ remaining(dealer) = 0

\* an episode was started by init_game
InEpisode == call.op \in {"init_game", "step"}

\* C18: in every state of an episode, is_over() is true iff turn = n; it
\* is false after init_game and after each of the first n - 1 steps, true
\* from the n-th step on, and true exactly when the dealer is exhausted.
C18_OverIffTurnIsN ==
    InEpisode =>
        /\ is_over(game) <=> game.t = game.n
        /\ game.t <= game.n
        /\ game.t = NumReturned
        /\ is_over(game) <=> remaining(dealer) = 0
        /\ is_over(game) <=> check_exhausted(dealer)
        /\ dealer.n = game.n

\* the episode over two decks ran to its last card
C18_Witness ==
    /\ Stepped
    /\ game.n = 104
    /\ game.t = 104
    /\ is_over(game)
    /\ remaining(dealer) = 0

\* the guess is right: it names the card's type (type mode) or id (id mode)
Correct(self, action, id) ==
    IF self.action_mode = "type" THEN action = id % 52 ELSE action = id

\* C19: the payoff is the single scalar [score]; score is 0 when the episode
\* starts and grows by 1 with each step whose guess is right and with no
\* other step, so it counts the right guesses; 0 <= score <= turn <= n.
C19_Payoff ==
    /\ [](InEpisode =>
            /\ get_payoffs(game) = <<game.score>>
            /\ 0 <= game.score /\ game.score <= game.t /\ game.t <= game.n)
    /\ [][call'.op = "init_game" => game'.score = 0]_vars
    /\ [][call'.op = "step"
            => game'.score = game.score
                  + (IF result'.tag = "id" /\ Correct(game, call'.action, result'.val)
                     THEN 1 ELSE 0)]_vars

----------------------------------------------------------------------------
(* AdaptiveThreshold: partition, acceptance, phases *)

\* C22: reset derives d = max(1, min(floor(m_bits/8), floor(n/2))) and cuts
\* [0,n) into d contiguous mini-decks: starts[0] = 0, starts[i+1] =
\* starts[i] + sizes[i], the sizes add up to n and differ by at most one,
\* the first n mod d have size ceil(n/d) and the rest floor(n/d); right
\* after the reset ell is all zeros.
C22_Partition ==
    (dealer.kind = "adaptive" /\ dealer.n >= 1) =>
        LET n == dealer.n
            d == dealer.d
            idx == 0..(d - 1)
        IN  /\ d = Max(1, Min(dealer.m_bits \div 8, n \div 2))
            /\ DOMAIN dealer.sizes = idx /\ DOMAIN dealer.starts = idx
            /\ DOMAIN dealer.ell = idx
            /\ dealer.starts[0] = 0
            /\ \A i \in idx \ {d - 1} :
                  dealer.starts[i + 1] = dealer.starts[i] + dealer.sizes[i]
            /\ dealer.starts[d - 1] + dealer.sizes[d - 1] = n
            /\ \A i, j \in idx : dealer.sizes[i] - dealer.sizes[j] \in {-1, 0, 1}
            /\ \A i \in idx :
                  dealer.sizes[i] = IF i < n % d THEN CeilDiv(n, d) ELSE n \div d
            /\ call.op = "reset" =>
                  /\ dealer.m_bits = Get(call.params, "m_bits", DefaultMBits)
                  /\ \A i \in idx : dealer.ell[i] = 0

\* a reset cut 7 cards into mini-decks of unequal size
C22_Witness ==
    /\ dealer.kind = "adaptive"
    /\ call.op = "reset"
    /\ dealer.d >= 2
    /\ dealer.n % dealer.d # 0
    /\ dealer.sizes[0] = dealer.sizes[dealer.d - 1] + 1
    /\ dealer.n = 7

\* the number k of the draw about to return, counted since the reset
DrawNumber == CallState.num_drawn + 1

\* C23: in the adaptive phase the k-th draw since reset (k = 1..n-2d)
\* accepts a sampled mini-deck i iff ell[i] < ceil(k/d) + 1 and
\* ell[i] < sizes[i]; an accepted sample returns starts[i] + ell[i] and adds
\* 1 to ell[i] and to num_drawn and changes nothing else; a rejected sample
\* changes nothing.
C23_Acceptance ==
    (InAdaptivePhase /\ dealer.n >= 1) =>
        LET self == IF pc = "loop" THEN dealer ELSE enter_adaptive(dealer)
            k == DrawNumber
        IN  /\ k \in 1..n_adaptive(self)
            /\ current_threshold(self) = CeilDiv(k, self.d) + 1
            /\ \A i \in uniform_int(0, self.d - 1) :
                  LET s == AdaptiveLoop(self, i)
                  IN  /\ s.ret <=> (/\ self.ell[i] < CeilDiv(k, self.d) + 1
                                    /\ self.ell[i] < self.sizes[i])
                      /\ s.ret =>
                            /\ s.out = self.starts[i] + self.ell[i]
                            /\ s.d = [self EXCEPT !.ell[i] = self.ell[i] + 1,
                                                  !.num_drawn = self.num_drawn + 1]
                      /\ ~s.ret => s.d = self

\* the third draw of a deal of 7 cards in 2 mini-decks: threshold 3 lets
\* mini-deck 0 give its third card
C23_Witness ==
    /\ dealer.kind = "adaptive"
    /\ InAdaptivePhase
    /\ pc = "idle"
    /\ dealer.d = 2
    /\ DrawNumber = 3
    /\ dealer.ell[0] = 2
    /\ AdaptiveLoop(enter_adaptive(dealer), 0).ret
    /\ AdaptiveLoop(enter_adaptive(dealer), 0).out = 2

\* the live prefix of the tail
TailIds(self) == {self.final_cards[i] : i \in 0..(self.final_remaining - 1)}

\* C24: whenever d = 1 the adaptive phase is empty: every draw, the first
\* included, is a swap-delete draw from the tail that held all n ids.
C24_SingleDeckIsFinal ==
    (dealer.kind = "adaptive" /\ dealer.d = 1 /\ NumReturned >= 1) =>
        /\ dealer.phase = "final"
        /\ TailIds(dealer) = AllIds \ DrawnIds

\* C25: from the state right after the (n-2d)-th draw on, while cards
\* remain, the dealer is in the final phase and peek_next_distribution() is
\* uniform over the tail, which holds all undrawn ids.
C25_FinalAfterAdaptiveDraws ==
    (/\ dealer.kind = "adaptive" /\ dealer.n >= 1
     /\ pc = "idle"
     /\ dealer.num_drawn >= n_adaptive(dealer)
     /\ remaining(dealer) > 0) =>
        LET pk == peek_next_distribution(dealer)
        IN  /\ dealer.phase = "final"
            /\ TailIds(dealer) = AllIds \ DrawnIds
            /\ ~pk.none
            /\ DOMAIN pk.dist = AllIds \ DrawnIds
            /\ \A id \in DOMAIN pk.dist : pk.dist[id] = Frac(1, remaining(dealer))

----------------------------------------------------------------------------
(* PerfectDealer: layout, masks, interval update *)

\* sum of interval_size[0..p]
RECURSIVE SizeSum(_, _)
SizeSum(self, p) ==
    IF p < 0 THEN 0 ELSE self.interval_size[p] + SizeSum(self, p - 1)

\* the slots of population interval p
IntervalSlots(self, p) ==
    self.interval_begin[p]..(self.interval_begin[p] + self.interval_size[p] - 1)

\* C28: for PerfectDealer, after reset and after every draw, the cell vector
\* is the concatenation of the population intervals in increasing population
\* order: interval_begin[0] = 0, interval_begin[p] + interval_size[p] =
\* interval_begin[p+1] for p < w, interval_begin[w] + interval_size[w] = C,
\* the sizes sum to C, and every cell at a slot of interval p has popcount p.
C28_Layout ==
    (dealer.kind = "perfect" /\ dealer.n >= 1) =>
        LET w == dealer.w
            C == dealer.num_cells
        IN  /\ DOMAIN dealer.interval_begin = 0..w
            /\ DOMAIN dealer.interval_size = 0..w
            /\ DOMAIN dealer.cells = 0..(C - 1)
            /\ dealer.interval_begin[0] = 0
            /\ \A p \in 0..(w - 1) :
                  dealer.interval_begin[p] + dealer.interval_size[p]
                      = dealer.interval_begin[p + 1]
            /\ dealer.interval_begin[w] + dealer.interval_size[w] = C
            /\ \A p \in 0..w : dealer.interval_size[p] >= 0
            /\ SizeSum(dealer, w) = C
            /\ \A p \in 0..w : \A slot \in IntervalSlots(dealer, p) :
                  CellPop(dealer.cells[slot]) = p

\* three population intervals are inhabited at once and a cell that was not
\* the first of its interval was moved down
C28_Witness ==
    /\ dealer.kind = "perfect"
    /\ dealer.n >= 1
    /\ result.tag = "id"
    /\ Cardinality({p \in 0..dealer.w : dealer.interval_size[p] >= 1}) >= 3
    /\ \E slot \in 1..(dealer.num_cells - 1) :
          dealer.cells[slot].index < dealer.cells[slot - 1].index

\* the ids a cell stands for
CellIds(cell) == {cell.base + b : b \in MaskBits(cell.mask, 0)}

\* the mask of the cell built with the given index, wherever it is stored
MaskOf(self, index) ==
    LET slot == CHOOSE j \in DOMAIN self.cells : self.cells[j].index = index
    IN  self.cells[slot].mask

\* after reset and after every draw the set bits stand for the undrawn ids
MaskInvariant ==
    (dealer.kind = "perfect" /\ dealer.n >= 1) =>
        /\ UNION {CellIds(dealer.cells[j]) : j \in DOMAIN dealer.cells}
               = AllIds \ DrawnIds
        /\ \A j, k \in DOMAIN dealer.cells :
              j # k => CellIds(dealer.cells[j]) \cap CellIds(dealer.cells[k]) = {}
        /\ \A j \in DOMAIN dealer.cells :
              /\ dealer.cells[j].base = dealer.cells[j].index * dealer.w
              /\ dealer.cells[j].mask \in 0..(Pow2(dealer.w) - 1)
        /\ {dealer.cells[j].index : j \in DOMAIN dealer.cells}
               = 0..(dealer.num_cells - 1)

\* a draw that returns id clears the bit of id and no other
OneBitCleared ==
    (dealer.kind = "perfect" /\ call'.op = "draw" /\ result'.tag = "id") =>
        LET id == result'.val
            w == dealer.w
        IN  \A index \in 0..(dealer.num_cells - 1) :
               MaskOf(dealer', index) =
                   IF index = id \div w
                   THEN MaskOf(dealer, index) - Pow2(id % w)
                   ELSE MaskOf(dealer, index)

\* C29: for PerfectDealer, after reset and after every draw, the set
\* { cell.base + b : bit b set in cell.mask } is exactly the set of ids not
\* yet drawn and no id is represented twice; each draw clears exactly the bit
\* of the id it returns and changes no other mask; every cell keeps
\* base = index * w wherever it is moved.
C29_Masks == []MaskInvariant /\ [][OneBitCleared]_vars

\* a draw took an id from the middle of a cell that had been moved
C29_Witness ==
    /\ dealer.kind = "perfect"
    /\ result.tag = "id"
    /\ dealer.num_drawn >= 2
    /\ \E j \in DOMAIN dealer.cells :
          /\ dealer.cells[j].index # j
          /\ result.val \in dealer.cells[j].base..(dealer.cells[j].base + dealer.w - 1)
          /\ \E lo, hi \in CellIds(dealer.cells[j]) : lo < result.val /\ result.val < hi

\* C30: _decrement_cell_population(slot, p*) swaps only the cells at slot and
\* at interval_begin[p*] (nothing when they are the same slot), adds 1 to
\* interval_begin[p*], takes 1 from interval_size[p*] and adds 1 to
\* interval_size[p*-1]; interval_begin[p*-1], every other interval entry and
\* every other cell position stay as they were, and afterwards the
\* decremented cell lies inside interval p*-1.
C30_DecrementFrame ==
    (dealer.kind = "perfect" /\ dealer.n >= 1 /\ remaining(dealer) > 0) =>
        \A smp \in PerfectSamples(dealer) :
            LET p == chosen_pop(dealer, smp[1])
                slot == dealer.interval_begin[p] + smp[2]
                cell == dealer.cells[slot]
                bit_pos == bit_select(cell.mask, smp[3])
                before == [dealer EXCEPT
                              !.cells[slot].mask = ClearBit(cell.mask, bit_pos)]
                first == before.interval_begin[p]
                after == decrement_cell_population(before, slot, p)
            IN  /\ p \in 1..dealer.w
                /\ after.cells[first] = before.cells[slot]
                /\ after.cells[slot] = before.cells[first]
                /\ \A j \in DOMAIN before.cells \ {slot, first} :
                      after.cells[j] = before.cells[j]
                /\ DOMAIN after.cells = DOMAIN before.cells
                /\ after.interval_begin =
                      [before.interval_begin EXCEPT ![p] = @ + 1]
                /\ after.interval_begin[p - 1] = before.interval_begin[p - 1]
                /\ after.interval_size =
                      [before.interval_size EXCEPT ![p] = @ - 1, ![p - 1] = @ + 1]
                /\ [after EXCEPT !.cells = before.cells,
                                 !.interval_begin = before.interval_begin,
                                 !.interval_size = before.interval_size] = before
                /\ first \in IntervalSlots(after, p - 1)
                /\ CellPop(after.cells[first]) = p - 1

\* a draw moved a cell that was not the first of its interval into a
\* population interval that already held cells
C30_Witness ==
    /\ dealer.kind = "perfect"
    /\ remaining(dealer) > 0
    /\ \E smp \in PerfectSamples(dealer) :
          LET p == chosen_pop(dealer, smp[1])
          IN  /\ smp[2] >= 1
              /\ p >= 2
              /\ dealer.interval_size[p - 1] >= 1

----------------------------------------------------------------------------
(* AdaptiveThreshold: the encoding option *)

OtherEncoding(e) == IF e = "naive" THEN "holes_elias_doc" ELSE "naive"

\* the dealer that differs from self in the encoding it was reset with
Twin(self) == [self EXCEPT !.encoding = OtherEncoding(@)]

\* a dealer state with the echoed encoding left out of the comparison
Erase(self) == [self EXCEPT !.encoding = "naive"]

NoStep(self, err) == [err |-> err, d |-> self, step |-> EmptyList]

\* an iteration of the rejection loop: for every value of the sample, what
\* the iteration does
LoopStep(self) ==
    IF uniform_int(0, self.d - 1) = {} THEN NoStep(self, "ValueError")
    ELSE [err |-> "none", d |-> self,
          step |-> [i \in uniform_int(0, self.d - 1) |-> AdaptiveLoop(self, i)]]

FinalStep(self) ==
    IF self.final_remaining = 0 THEN NoStep(self, "FinalExhausted")
    ELSE [err |-> "none", d |-> self,
          step |-> [i \in uniform_int(0, self.final_remaining - 1) |->
                       draw_final(self, i)]]

\* draw() up to and including its first sample
DrawStep(self) ==
    IF check_exhausted(self) THEN NoStep(self, "Exhausted")
    ELSE IF self.phase = "adaptive"
    THEN LET entered == enter_adaptive(self)
         IN  IF entered.t > n_adaptive(entered)
             THEN FinalStep(transition_to_final(entered))
             ELSE LoopStep(entered)
    ELSE FinalStep(self)

\* the step the dealer takes next, in a call or inside its rejection loop
NextStep(self) == IF pc = "loop" THEN LoopStep(self) ELSE DrawStep(self)

EraseStep(s) ==
    [err |-> s.err, d |-> Erase(s.d),
     step |-> [v \in DOMAIN s.step |-> [s.step[v] EXCEPT !.d = Erase(@)]]]

SummaryKeys == DOMAIN AdaptiveStateSummary(AdaptiveNew)

\* a dealer and its twin under the other encoding agree on everything a
\* caller can observe but theoretical_bits and the echoed encoding, and stay
\* twins under every operation with the same sample
EncodingInvisible ==
    dealer.kind = "adaptive" =>
        LET twin == Twin(dealer)
        IN  /\ remaining(twin) = remaining(dealer)
            /\ peek_next_distribution(twin) = peek_next_distribution(dealer)
            /\ EraseStep(NextStep(twin)) = EraseStep(NextStep(dealer))
            /\ \A n \in NChoices("adaptive") :
                  /\ \A p \in ParamChoices("adaptive") :
                        reset(twin, n, p) = reset(dealer, n, p)
                  /\ \A m \in MBitsChoices :
                        /\ Twin(reset(dealer, n, [m_bits |-> m, encoding |-> "naive"]))
                             = reset(dealer, n, [m_bits |-> m,
                                                 encoding |-> "holes_elias_doc"])
                        /\ reset(dealer, n, [m_bits |-> m])
                             = reset(dealer, n, [m_bits |-> m, encoding |-> "naive"])
                  /\ Twin(reset(dealer, n, [encoding |-> "naive"]))
                       = reset(dealer, n, [encoding |-> "holes_elias_doc"])
            /\ dealer.n >= 1 =>
                  \A key \in SummaryKeys \ {"theoretical_bits", "encoding"} :
                     AdaptiveStateSummary(twin)[key] = AdaptiveStateSummary(dealer)[key]

\* every step of a draw() is the step NextStep describes, for some sample
DrawFollowsStep ==
    (dealer.kind = "adaptive" /\ call'.op = "draw") =>
        LET s == NextStep(dealer)
        IN  IF s.err # "none"
            THEN dealer' = s.d /\ result' = Raised(s.err)
            ELSE \E v \in DOMAIN s.step :
                    /\ dealer' = s.step[v].d
                    /\ result' = IF s.step[v].ret THEN Returned(s.step[v].out)
                                 ELSE Pending

\* C21: for AdaptiveThreshold the encoding option does not affect dealing:
\* a dealer reset with encoding naive and one reset with holes_elias_doc,
\* given the same n, m_bits and samples, return the same ids, the same
\* remaining() and the same peek at every step; of state_summary() only
\* theoretical_bits and the echoed encoding may differ.
C21_EncodingInvisible == []EncodingInvisible /\ [][DrawFollowsStep]_vars

\* a holes_elias_doc dealer, some draws into its deal, whose
\* theoretical_bits differs from that of its naive twin
C21_Witness ==
    /\ dealer.kind = "adaptive"
    /\ dealer.encoding = "holes_elias_doc"
    /\ result.tag = "id"
    /\ dealer.num_drawn >= 2
    /\ dealer.d >= 2
    /\ AdaptiveStateSummary(dealer).theoretical_bits
         # AdaptiveStateSummary(Twin(dealer)).theoretical_bits
    /\ AdaptiveStateSummary(dealer).python_bytes
         = AdaptiveStateSummary(Twin(dealer)).python_bytes

----------------------------------------------------------------------------
(* Termination of the rejection loops *)

\* in every adaptive-phase draw some mini-deck is drawable
DrawableExists ==
    (InAdaptivePhase /\ dealer.n >= 1) =>
        LET self == IF pc = "loop" THEN dealer ELSE enter_adaptive(dealer)
        IN  /\ get_drawable_indices(self) # {}
            /\ \E i \in uniform_int(0, self.d - 1) : AdaptiveLoop(self, i).ret

\* C26: at every adaptive-phase draw of AdaptiveThreshold (k = 1..n-2d)
\* at least one mini-deck i has ell[i] < threshold and ell[i] < sizes[i],
\* so under a source that eventually yields every index of [0, d-1] a draw
\* that entered its rejection loop eventually returns.
C26_AdaptiveLoopTerminates ==
    /\ []DrawableExists
    /\ (pc = "loop" /\ dealer.kind = "adaptive") ~> (pc = "idle" /\ result.tag = "id")

\* a draw is in its rejection loop, has seen several rejected samples, and
\* only one of the mini-decks is drawable
C26_Witness ==
    /\ dealer.kind = "adaptive"
    /\ pc = "loop"
    /\ nsamples >= 2
    /\ dealer.d >= 2
    /\ Cardinality(get_drawable_indices(dealer)) = 1

\* a rejected sample of a drawn id is possible whenever ids were drawn, and
\* it leaves the dealer as it was
RejectKeepsState ==
    (dealer.kind = "bitmap" /\ dealer.n >= 1 /\ remaining(dealer) > 0) =>
        /\ \E c \in uniform_int(0, dealer.n - 1) : BitmapLoop(dealer, c).ret
        /\ \A c \in uniform_int(0, dealer.n - 1) :
              dealer.available[c] = 0 =>
                 /\ ~BitmapLoop(dealer, c).ret
                 /\ BitmapLoop(dealer, c).d = dealer
        /\ pc = "loop" =>
              \E c \in uniform_int(0, dealer.n - 1) : dealer.available[c] = 0

\* a step of the loop returns an id or goes on looping, however many samples
\* were rejected before; while it loops, bitmap and num_drawn stay
LoopNeverGivesUp ==
    (dealer.kind = "bitmap" /\ pc = "loop") =>
        /\ result'.tag \in {"id", "pending"}
        /\ pc' = "loop" => (dealer' = dealer /\ drawn' = drawn)
        /\ pc' = "idle" => result'.tag = "id"

\* C27: BitmapDealer.draw() with remaining() > 0 eventually returns under a
\* source that eventually yields every value of [0, n-1]; it has no internal
\* cap: as long as the source yields drawn ids the draw goes on looping and
\* changes neither the bitmap nor num_drawn.
C27_BitmapLoop ==
    /\ []RejectKeepsState
    /\ [][LoopNeverGivesUp]_vars
    /\ (pc = "loop" /\ dealer.kind = "bitmap") ~> (pc = "idle" /\ result.tag = "id")

\* a draw near exhaustion: one id of seven is left and the loop has rejected
\* as many samples as the model counts
C27_Witness ==
    /\ dealer.kind = "bitmap"
    /\ pc = "loop"
    /\ dealer.n = MaxN
    /\ remaining(dealer) = 1
    /\ nsamples = MaxSamples

----------------------------------------------------------------------------
(* Failures of PerfectDealer.draw, FisherYates swap-delete *)

\* C31: the Inconsistent failure of PerfectDealer is unreachable: in no
\* state reached by resets with n >= 1 and draws does draw() find total = 0
\* while num_drawn < n, nor does bit_select run out of set bits; the only
\* failure a draw produces is Exhausted.
C31_PerfectNeverInconsistent ==
    (dealer.kind = "perfect" /\ dealer.n >= 1) =>
        /\ call.op = "draw" => result.tag \in {"id", "Exhausted"}
        /\ result.tag = "Exhausted" => dealer.num_drawn >= dealer.n
        /\ ~check_exhausted(dealer) =>
              /\ PerfectTotal(dealer) > 0
              /\ PerfectSamples(dealer) # {}
              /\ \A smp \in PerfectSamples(dealer) :
                    LET p == chosen_pop(dealer, smp[1])
                        cell == dealer.cells[dealer.interval_begin[p] + smp[2]]
                    IN  /\ p >= 1
                        /\ bit_select(cell.mask, smp[3]) >= 0
                        /\ PerfectSample(dealer, smp[1], smp[2], smp[3]).ret

\* every card of the largest deck was drawn, none of the draws failed, and
\* the draw after them failed with Exhausted
C31_Witness ==
    /\ dealer.kind = "perfect"
    /\ dealer.n = MaxN
    /\ dealer.num_drawn = dealer.n
    /\ NumReturned = dealer.n
    /\ result.tag = "Exhausted"

\* the live prefix V[0..m) of FisherYatesDealer
LivePrefix(self) == {self.array[i] : i \in 0..(self.remaining - 1)}

FisherYatesInvariant ==
    (dealer.kind = "fisher_yates" /\ dealer.n >= 1) =>
        /\ dealer.remaining = dealer.n - NumReturned
        /\ LivePrefix(dealer) = AllIds \ DrawnIds
        /\ Cardinality(LivePrefix(dealer)) = dealer.remaining
        /\ pc = "idle"

\* a draw that is not refused takes one sample i of [0, m-1], returns V[i],
\* writes V[m-1] into V[i] and decrements m
SwapDeleteStep ==
    (dealer.kind = "fisher_yates" /\ call'.op = "draw"
        /\ result'.tag # "Exhausted") =>
        LET m == dealer.remaining
        IN  /\ nsamples' = 1
            /\ pc' = "idle"
            /\ \E i \in 0..(m - 1) :
                  /\ result' = Returned(dealer.array[i])
                  /\ dealer' = [dealer EXCEPT !.array[i] = dealer.array[m - 1],
                                              !.remaining = m - 1,
                                              !.num_drawn = @ + 1]

\* C32: FisherYatesDealer.draw() with live length m picks i in [0, m-1],
\* returns V[i], writes V[i] := V[m-1] and decrements m; so after reset and
\* after every draw the live prefix V[0..m) holds exactly the undrawn ids,
\* each once, and a draw takes exactly one sample and never loops.
C32_SwapDelete == []FisherYatesInvariant /\ [][SwapDeleteStep]_vars

\* several draws in, the last draw took an id from the middle of the live
\* prefix and an id moved earlier sits in front of smaller ones
C32_Witness ==
    /\ dealer.kind = "fisher_yates"
    /\ result.tag = "id"
    /\ dealer.num_drawn >= 3
    /\ dealer.remaining >= 3
    /\ \E i \in 1..(dealer.remaining - 1) :
          /\ dealer.array[i - 1] > dealer.array[i]
          /\ dealer.array[i - 1] > result.val

----------------------------------------------------------------------------
(* ShuffleGuessGame: bookkeeping of an episode, reported parameters *)

\* the ids of drawn_ids
GameDrawnIds == {game.drawn_ids[k] : k \in 1..Len(game.drawn_ids)}

\* C33: in every state reached from init_game by steps, len(drawn_ids) =
\* turn = sum of counts, the drawn ids are pairwise distinct ids of [0, n),
\* counts[k] is the number of drawn ids congruent to k mod 52, and at
\* terminal drawn_ids is a permutation of 0..n-1.
C33_Bookkeeping ==
    InEpisode =>
        LET st == get_state(game)
        IN  /\ Len(st.drawn_ids) = st.turn
            /\ ListSumTo(st.counts, NUM_TYPES) = st.turn
            /\ GameDrawnIds \subseteq 0..(st.n - 1)
            /\ Cardinality(GameDrawnIds) = Len(st.drawn_ids)
            /\ \A k \in 0..(NUM_TYPES - 1) :
                  st.counts[k] = Cardinality({id \in GameDrawnIds : id % NUM_TYPES = k})
            /\ GameDrawnIds = DrawnIds
            /\ is_over(game) =>
                  /\ Len(st.drawn_ids) = st.n
                  /\ GameDrawnIds = 0..(st.n - 1)

\* an episode over two decks ran to its end: every type was seen twice
C33_Witness ==
    /\ Stepped
    /\ game.n = 104
    /\ is_over(game)
    /\ \A k \in 0..(NUM_TYPES - 1) : game.counts[k] = 2
    /\ game.drawn_ids[53] % NUM_TYPES = game.drawn_ids[1] % NUM_TYPES

\* C40: for every configuration, also one whose dealer_params holds an
\* m_bits entry of its own, the dealer_params of the observation get_state
\* returns is the parameter map init_game passed to dealer.reset, with the
\* m_bits the dealer was reset with.
C40_ReportedParams ==
    InEpisode =>
        /\ get_state(game).dealer_params = reset_params(game)
        /\ call.op = "init_game" => get_state(game).dealer_params = call.params
        /\ dealer.kind = "adaptive" =>
              get_state(game).dealer_params.m_bits = dealer.m_bits

----------------------------------------------------------------------------
(* DealerSwapDealer *)

\* the cards of a sequence
CardSet(cards) == {cards[k] : k \in 1..Len(cards)}

\* while shuffle() draws, perm holds the ids drawn since its reset
Shuffling ==
    pc = "shuffle" =>
        /\ dealer.n = StandardDeckSize
        /\ dealer.num_drawn = Len(call.perm)
        /\ Len(call.perm) < StandardDeckSize
        /\ drawn = SetToBag(CardSet(call.perm))
        /\ result = NoResult

\* the deck a shuffle left and what is still to be dealt of it
ShuffledDeck ==
    pc = "idle" =>
        LET n == StandardDeckSize
        IN  /\ dealer.kind = game.dealer_name
            /\ dealer.n = n
            /\ dealer.num_drawn = n
            /\ dealer.m_bits = game.dealer_params.m_bits
            /\ Len(call.perm) = n
            /\ CardSet(call.perm) = 0..(n - 1)
            /\ drawn = SetToBag(0..(n - 1))
            /\ result.tag \in {"none", "card", "cards", "IndexError"}
            /\ call.op = "shuffle" =>
                  /\ result = NoResult
                  /\ Len(game.deck) = n
                  /\ CardSet(game.deck) = {init_standard_deck[i] : i \in 0..(n - 1)}
                  /\ Cardinality(CardSet(game.deck)) = n
            /\ Len(game.deck) = n - call.k
            /\ \A j \in (call.k + 1)..n :
                  game.deck[n - j + 1] = init_standard_deck[call.perm[j]]

\* the k-th deal_card() after a shuffle returns the card of the k-th id
DealtInDrawOrder ==
    (call'.op = "deal_card" /\ result'.tag = "card") =>
        /\ call'.k = call.k + 1
        /\ result'.val = init_standard_deck[call.perm[call'.k]]

\* C34: DealerSwapDealer.shuffle resets the chosen dealer with n = 52, draws
\* exactly 52 ids, and leaves a deck holding each of the 52 base cards
\* exactly once, ordered so that the k-th deal_card() call after the shuffle
\* returns the base card indexed by the k-th id the dealer drew.
C34_Shuffle == []Shuffling /\ []ShuffledDeck /\ [][DealtInDrawOrder]_vars

\* the whole deck was dealt card by card and the last card dealt is the card
\* of the last id drawn, an id the final phase drew out of order
C34_Witness ==
    /\ game.owner = "DealerSwapDealer"
    /\ call.op = "deal_card"
    /\ call.k = StandardDeckSize
    /\ result.tag = "card"
    /\ result.val = init_standard_deck[call.perm[StandardDeckSize]]
    /\ call.perm[StandardDeckSize] = StandardDeckSize - 2

----------------------------------------------------------------------------
(* AdaptiveThreshold: transition and final phase *)

\* in the final phase the live prefix of the tail is the undrawn set
FinalPhaseInvariant ==
    (dealer.kind = "adaptive" /\ dealer.n >= 1) =>
        /\ result.tag # "FinalExhausted"
        /\ dealer.phase = "final" =>
              /\ pc = "idle"
              /\ dealer.final_remaining = remaining(dealer)
              /\ TailIds(dealer) = AllIds \ DrawnIds
              /\ Cardinality(TailIds(dealer)) = dealer.final_remaining
              /\ ListLen(dealer.final_cards) =
                    dealer.n - Max(0, n_adaptive(dealer))
              /\ dealer.num_drawn >= n_adaptive(dealer)

\* the swap-delete draw with sample i on the tail of self
SwapDeleteFrom(self, i) ==
    /\ result' = Returned(self.final_cards[i])
    /\ dealer' = [self EXCEPT !.final_cards[i] =
                                  self.final_cards[self.final_remaining - 1],
                              !.final_remaining = @ - 1,
                              !.num_drawn = @ + 1]

\* the draw that leaves the adaptive phase collects the undrawn ids into
\* the tail and takes its id from it by swap-delete
TransitionStep ==
    (dealer.kind = "adaptive" /\ dealer.phase = "adaptive"
        /\ dealer'.phase = "final") =>
        LET self == transition_to_final(enter_adaptive(dealer))
        IN  /\ dealer.num_drawn = Max(0, n_adaptive(dealer))
            /\ ListLen(self.final_cards) = dealer.n - Max(0, n_adaptive(dealer))
            /\ dealer.n >= 2 * dealer.d =>
                  ListLen(self.final_cards) = 2 * dealer.d
            /\ self.final_remaining = ListLen(self.final_cards)
            /\ TailIds(self) = AllIds \ DrawnIds
            /\ Cardinality(TailIds(self)) = self.final_remaining
            /\ \E i \in 0..(self.final_remaining - 1) : SwapDeleteFrom(self, i)

\* a draw in the final phase is refused as Exhausted or is a swap-delete
\* draw with one sample
FinalPhaseStep ==
    (dealer.kind = "adaptive" /\ dealer.phase = "final"
        /\ call'.op = "draw") =>
        \/ /\ result' = Raised("Exhausted")
           /\ dealer.final_remaining = 0
           /\ dealer' = dealer
        \/ /\ nsamples' = 1
           /\ \E i \in 0..(dealer.final_remaining - 1) :
                 SwapDeleteFrom(dealer, i)

\* C35: when the AdaptiveThreshold dealer leaves the adaptive phase the tail
\* holds exactly the n - max(0, n-2d) undrawn ids, each once (2d of them
\* when n >= 2d); from then on every draw is a swap-delete draw, the live
\* prefix of the tail is the undrawn set, final_remaining = remaining(), and
\* no draw fails with 'Final phase exhausted unexpectedly'.
C35_FinalPhase ==
    /\ []FinalPhaseInvariant
    /\ [][TransitionStep]_vars
    /\ [][FinalPhaseStep]_vars

\* a final-phase draw took an id out of the middle of a tail of four that
\* two mini-decks left, so the last live id moved into its slot
C35_Witness ==
    /\ dealer.kind = "adaptive"
    /\ dealer.phase = "final"
    /\ dealer.d = 2
    /\ dealer.n >= 6
    /\ dealer.final_remaining = 2
    /\ result.tag = "id"
    /\ dealer.final_cards[0] > dealer.final_cards[1]

----------------------------------------------------------------------------
(* AdaptiveThreshold: counters, order within a mini-deck *)

\* the hole distances state_summary() passes to _elias_gamma_bits
HoleDistances(self) ==
    {current_threshold(self) - self.ell[i] :
        i \in {k \in 0..(self.d - 1) : self.ell[k] < self.sizes[k]}}

\* C36: in every reachable state of the AdaptiveThreshold dealer and for
\* every mini-deck i, 0 <= ell[i] <= sizes[i] and ell[i] <= threshold, the
\* threshold being 1 when t = 0 and ceil(t/d) + 1 otherwise; so every hole
\* distance threshold - ell[i] of the holes_elias_doc accounting is >= 0.
C36_CounterBound ==
    dealer.kind = "adaptive" =>
        LET threshold == IF dealer.t = 0 THEN 1
                         ELSE CeilDiv(dealer.t, dealer.d) + 1
        IN  /\ dealer.n >= 1 => current_threshold(dealer) = threshold
            /\ \A i \in 0..(dealer.d - 1) :
                  /\ 0 <= dealer.ell[i]
                  /\ dealer.ell[i] <= dealer.sizes[i]
                  /\ dealer.ell[i] <= threshold
            /\ \A x \in HoleDistances(dealer) :
                  /\ x >= 0
                  /\ elias_gamma_bits(x) = 2 * FloorLog2(x + 1) + 1

\* under the Elias accounting one mini-deck has reached the threshold, at
\* hole distance 0, while the other is still untouched
C36_Witness ==
    /\ dealer.kind = "adaptive"
    /\ dealer.encoding = "holes_elias_doc"
    /\ dealer.phase = "adaptive"
    /\ dealer.d = 2
    /\ dealer.ell[0] = current_threshold(dealer)
    /\ dealer.ell[0] < dealer.sizes[0]
    /\ dealer.ell[1] = 0
    /\ 0 \in HoleDistances(dealer)

\* ids starts[i], ..., starts[i] + k - 1 of mini-deck i
DeckPrefix(self, i, k) == {self.starts[i] + j : j \in 0..(k - 1)}

\* while the dealer is in the adaptive phase the ids drawn are, mini-deck by
\* mini-deck, the first ell[i] ids of the mini-deck
PrefixesDrawn ==
    (dealer.kind = "adaptive" /\ dealer.n >= 1 /\ dealer.phase = "adaptive") =>
        /\ DrawnIds = UNION {DeckPrefix(dealer, i, dealer.ell[i]) :
                                i \in 0..(dealer.d - 1)}
        /\ NumReturned = ListSumTo(dealer.ell, dealer.d)

\* an adaptive-phase draw returns the id that follows the ids already taken
\* from its mini-deck
NextOfDeck ==
    (/\ dealer.kind = "adaptive"
     /\ call'.op = "draw" /\ result'.tag = "id"
     /\ dealer'.phase = "adaptive") =>
        \E i \in 0..(dealer.d - 1) :
           /\ result'.val = dealer.starts[i] + dealer.ell[i]
           /\ dealer'.ell = [dealer.ell EXCEPT ![i] = @ + 1]
           /\ DeckPrefix(dealer, i, dealer.ell[i]) \subseteq DrawnIds
           /\ \A k \in 1..dealer.ell[i] :
                 (dealer.starts[i] + k - 1) \in DrawnIds
           /\ result'.val \notin DrawnIds

\* C37: during the adaptive phase the ids taken from mini-deck i are
\* starts[i], starts[i]+1, ... in increasing order: an adaptive-phase draw
\* never returns starts[i]+k, k >= 1, before starts[i]+k-1 was returned.
C37_DeckOrder == []PrefixesDrawn /\ [][NextOfDeck]_vars

\* an adaptive-phase draw returned the third id of the second mini-deck
\* while the first mini-deck had given one id
C37_Witness ==
    /\ dealer.kind = "adaptive"
    /\ dealer.phase = "adaptive"
    /\ dealer.d = 2
    /\ pc = "idle"
    /\ result.tag = "id"
    /\ result.val = dealer.starts[1] + 2
    /\ dealer.ell[0] = 1
    /\ dealer.ell[1] = 3

----------------------------------------------------------------------------
(* Queries *)

\* a step that returns from a query method changes nothing but the value
\* returned, which the dealer's state determines
QueryFrame ==
    result'.tag \in QueryOps =>
        /\ pc = "idle" /\ pc' = "idle"
        /\ dealer' = dealer
        /\ drawn' = drawn
        /\ nsamples' = nsamples
        /\ call' = call
        /\ remaining(dealer') = remaining(dealer)
        /\ peek_next_distribution(dealer') = peek_next_distribution(dealer)
        /\ dealer.kind = "adaptive" =>
              /\ dealer'.t = dealer.t
              /\ dealer'.phase = dealer.phase

\* with queries between them the draws still deal a permutation
QueriedDeal ==
    dealer.n >= 1 =>
        /\ DrawnIds \subseteq AllIds
        /\ Cardinality(DrawnIds) = NumReturned
        /\ NumReturned = dealer.num_drawn
        /\ remaining(dealer) = dealer.n - NumReturned
        /\ result.tag \in QueryOps \cup {"none", "id", "Exhausted"}

\* C38: remaining(), peek_next_distribution(), peek_drawable_options() and
\* state_summary() are pure for all four dealers: they change no dealer
\* state (they neither advance t nor trigger the AdaptiveThreshold
\* transition) and take no value from the random source, so queries between
\* draws do not change the ids drawn.
C38_QueriesArePure == []QueriedDeal /\ [][QueryFrame]_vars

\* peek_drawable_options() was called on an AdaptiveThreshold dealer whose
\* adaptive draws are used up and whose next draw will be the transition: it
\* reported two mini-deck tops and the dealer is still in the adaptive phase
C38_Witness ==
    /\ dealer.kind = "adaptive"
    /\ result.tag = "peek_drawable_options"
    /\ dealer.phase = "adaptive"
    /\ dealer.num_drawn = n_adaptive(dealer)
    /\ dealer.num_drawn >= 1
    /\ dealer.t = dealer.num_drawn
    /\ Len(result.val) = 2

----------------------------------------------------------------------------
(* Requests to the random source *)

\* the (lo, hi) ranges the uniform_int calls of the draw that is about to
\* start, or of the rejection loop that is running, can ask for
Requests(self) ==
    CASE self.kind = "bitmap" -> {<<0, self.n - 1>>}
      [] self.kind = "fisher_yates" -> {<<0, self.remaining - 1>>}
      [] self.kind = "adaptive" ->
            IF self.phase = "final" THEN {<<0, self.final_remaining - 1>>}
            ELSE IF pc = "loop" THEN {<<0, self.d - 1>>}
            ELSE IF enter_adaptive(self).t > n_adaptive(self)
            THEN {<<0, transition_to_final(enter_adaptive(self)).final_remaining - 1>>}
            ELSE {<<0, self.d - 1>>}
      [] self.kind = "perfect" ->
            {<<0, PerfectTotal(self) - 1>>}
            \cup UNION {{<<0, self.interval_size[chosen_pop(self, r)] - 1>>,
                         <<0, chosen_pop(self, r) - 1>>} :
                           r \in uniform_int(0, PerfectTotal(self) - 1)}

\* C39: no dealer asks the random source for an empty range: in every state
\* reached by resets with n >= 1 and draws, every uniform_int(lo, hi) the
\* next draw or loop iteration can issue has lo = 0 <= hi (FisherYates with
\* m >= 1, Perfect with total >= 1, p* >= 1 and interval_size[p*] >= 1), and
\* no draw fails with the random source's ValueError.
C39_NoEmptyRange ==
    dealer.n >= 1 =>
        /\ result.tag # "ValueError"
        /\ (pc = "loop" \/ ~check_exhausted(dealer)) =>
              /\ Requests(dealer) # {}
              /\ \A q \in Requests(dealer) :
                    /\ q[1] = 0
                    /\ q[2] >= 0
                    /\ uniform_int(q[1], q[2]) # {}
              /\ dealer.kind = "fisher_yates" => dealer.remaining >= 1
              /\ dealer.kind = "perfect" =>
                    /\ PerfectTotal(dealer) >= 1
                    /\ \A r \in uniform_int(0, PerfectTotal(dealer) - 1) :
                          /\ chosen_pop(dealer, r) >= 1
                          /\ dealer.interval_size[chosen_pop(dealer, r)] >= 1

\* one card is left in a PerfectDealer after a draw: its three requests are
\* all for the one-value range [0, 0]
C39_Witness ==
    /\ dealer.kind = "perfect"
    /\ dealer.n >= 3
    /\ result.tag = "id"
    /\ remaining(dealer) = 1
    /\ Requests(dealer) = {<<0, 0>>}

============================================================================
